---- MODULE Spec2Model ----
(***************************************************************************)
(* GT-Dash telemetry pipeline: the Sector/Lap Tracker                      *)
(* (src/main/utils/sectorTimes.ts) and the ingestion path of the connect   *)
(* handler (src/main/index.ts) that feeds it.                              *)
(*                                                                         *)
(* Numbers.  Distances and lap lengths are metres, timestamps and          *)
(* durations are milliseconds, all integers.  A fraction of a lap          *)
(* (sector boundary, centerline point's d) is held in hundredths, so the   *)
(* default boundaries 0.33 and 0.66 are 33 and 66.  The quotient           *)
(* lapDistance / lapLengthMeters is held exactly as [num, den] and         *)
(* compared by cross multiplication.                                       *)
(***************************************************************************)
EXTENDS Integers, Sequences, FiniteSets, TLC

\* ---------------------------------------------------------------- bounds
MaxCalls == 4
MaxCarCalls == 3
MaxMapCalls == 3
MaxPackets == 3
MaxStarts == 2
MaxDatagrams == 3
MaxBeats == 2
MaxSamples == 3
MaxLine == 3

\* ------------------------------------------------------ program constants
\* an optional field (?:) that is undefined; every defined value of an
\* optional field of the tracker is >= 0
Undef == -1
DefaultS1End == 33
DefaultS2End == 66
MinLapLength == 500
MaxLapLength == 50000
JitterMeters == 50
\* processTrackCapture keeps the downsampled points only if there are more
\* than this many
SparseLimit == 10

\* ------------------------------------------------------------ input sets
\* the vehicle of the one-vehicle specifications (0 is the falsy identity
\* that calculateSectorTimes refuses)
Car == 1
\* two vehicles, for the interleavings of SpecCars
TwoCars == {1, 2}
\* the completed-lap counter before and after a rollover
LapCounts == {0, 1}
\* sample times; 0 is a timestamp that is falsy
Times == {0, 1}
\* 0: no distance; 450: below the plausible band; 500 and 50000: the ends
\* of the band (450 and 500 are 50 m apart); 600 and 1700: plausible, 600
\* being past the first third of 1700 and 500 before it; 60000: above the
\* band
Distances == {0, 450, 500, 600, 1700, 50000, 60000}
\* 0 is "no last lap" (the parser turns -1 into 0)
LapTimes == {0, 65000, 66000}

\* ------------------------------------------------------------- track maps
\* a TrackPoint of a centerline: d is the progress fraction, in hundredths
TrackPoint(x, z, d) == [x |-> x, z |-> z, d |-> d]

\* a TrackMap argument: present is FALSE when the argument is omitted (a
\* TrackMap always has a centerline array, which may be empty)
TrackMap(lengthMeters, centerline, sectorFractions) ==
    [lengthMeters |-> lengthMeters, centerline |-> centerline,
     sectorFractions |-> sectorFractions, present |-> TRUE]

NoMap == [lengthMeters |-> 0, centerline |-> <<>>, sectorFractions |-> <<>>,
          present |-> FALSE]

\* positionX / positionZ: both given or both omitted
Position(x, z) == [x |-> x, z |-> z, defined |-> TRUE]

NoPos == [x |-> 0, z |-> 0, defined |-> FALSE]

\* three points of a track, at 0, 0.40 and 1.00 of the lap
Centerline3 ==
    <<TrackPoint(0, 0, 0), TrackPoint(10, 0, 40), TrackPoint(10, 10, 100)>>

\* MapA: as processTrackCapture returns it (no sector fractions); MapB: a
\* shorter track with sector fractions 0 and 0.40; MapC: of length 0; MapD:
\* with an empty centerline
MapA == TrackMap(1700, Centerline3, <<>>)
MapB == TrackMap(1000, Centerline3, <<0, 40>>)
MapC == TrackMap(0, Centerline3, <<>>)
MapD == TrackMap(1700, <<>>, <<>>)

\* no position; (5,0) as near the first point as the second; (10,1) nearest
\* the second; (10,10) on the third
Positions == {NoPos, Position(5, 0), Position(10, 1), Position(10, 10)}
\* the (trackMap, position) pairs of the calls of SpecMap: no map, without
\* and with a position; MapA with every position; MapB without a position
\* and with one; MapC and MapD with a position
MapInputs ==
    ({NoMap} \X {NoPos, Position(10, 1)})
    \cup ({MapA} \X Positions)
    \cup ({MapB} \X {NoPos, Position(10, 1)})
    \cup ({MapC, MapD} \X {Position(10, 1)})
\* the scalar inputs of the calls of SpecMap and of SpecCars
MapDistances == {0, 1700}
MapLapTimes == {65000}
CarDistances == {0, 600, 1700}
\* the decoded fields of the packets of SpecIngest; the alternate lap
\* counter (0x120) runs one ahead of the completed-lap counter
PacketDistances == {0, 1700}
PacketLapTimes == {0, 65000}
AltLaps == {0, 1, 2}
\* the tracks captured in SpecCapture
TrackIds == {"spa", "monza"}
\* the positions of SpecQuery: centerline points and targets on a 3 x 3 grid
QueryPoints == {Position(1, 1), Position(1, 0), Position(0, 2)}
QueryTargets == {Position(0, 0), Position(1, 0), Position(2, 2)}
\* the clock when a capture is processed (it is only copied to capturedAt)
ProcessTimes == {1}

\* the argument object of calculateSectorTimes
Input(carId, lapCountRaw, lapDistance, lastLapTimeMs, pos, trackMap, now) ==
    [carId |-> carId, lapCountRaw |-> lapCountRaw,
     lapDistance |-> lapDistance, lastLapTimeMs |-> lastLapTimeMs,
     pos |-> pos, trackMap |-> trackMap, now |-> now]

\* the record of an operation that takes only an identity, or nothing
IdOnly(carId) == Input(carId, 0, 0, 0, NoPos, NoMap, 0)

\* ------------------------------------------------------------ the state
VARIABLES
    states,        \* sectorTimes.ts: Map<carId, SectorState>
    last,          \* the most recent operation: [op, args, result]
    calls,         \* calls and packets handled so far
    listener,      \* index.ts: the listener exists (a connection is up)
    currentLap,    \* index.ts: the orchestrator's lap index
    lapTelemetry,  \* index.ts: the lap accumulation buffer
    gt7,           \* listener.ts: the fields of the GT7Listener object
    net,           \* the sockets, timers and datagrams around the listener
    captureSession,\* trackCapture.ts: the capture session, or null
    store          \* what was handed to storage and to the renderer

vars == <<states, last, calls, listener, currentLap, lapTelemetry,
          gt7, net, captureSession, store>>

\* the variables of the listener, of the track capture and of storage
listenerVars == <<gt7, net>>
captureVars == <<captureSession, store>>

\* ------------------------------------------------------------- fractions
Frac(num, den) == [num |-> num, den |-> den]

\* clamp01(lapDistance / lapLengthMeters), for lapLengthMeters > 0
clamp01(num, den) ==
    IF num < 0 THEN Frac(0, 1)
    ELSE IF num > den THEN Frac(1, 1)
    ELSE Frac(num, den)

\* fraction >= boundary (hundredths)
FracGE(f, h) == f.num * 100 >= h * f.den

\* a number used as a condition: undefined and 0 are both falsy
Truthy(x) == x /= Undef /\ x /= 0

\* -------------------------------------------------- getDistanceAlongTrack
DistSq(p, x, z) == (x - p.x) * (x - p.x) + (z - p.z) * (z - p.z)

\* a scan that takes a later point that is as near
NearestFrom_Last(cl, x, z, i, best, frac) ==
    LET RECURSIVE scan(_, _, _)
        scan(j, b, f) ==
            IF j > Len(cl) THEN f
            ELSE IF b = Undef \/ DistSq(cl[j], x, z) <= b
                 THEN scan(j + 1, DistSq(cl[j], x, z), cl[j].d)
                 ELSE scan(j + 1, b, f)
    IN  scan(i, best, frac)

RECURSIVE NearestFrom(_, _, _, _, _, _)
\* the scan `for (const point of centerline)`: i is the next index, best the
\* smallest squared distance so far (Undef stands for Infinity), frac the
\* fraction of the point that set it
NearestFrom(cl, x, z, i, best, frac) ==
    IF i > Len(cl) THEN frac
    ELSE IF best = Undef \/ DistSq(cl[i], x, z) < best
         THEN NearestFrom(cl, x, z, i + 1, DistSq(cl[i], x, z), cl[i].d)
         ELSE NearestFrom(cl, x, z, i + 1, best, frac)

getDistanceAlongTrack(cl, x, z) ==
    IF Len(cl) = 0 THEN 0 ELSE NearestFrom(cl, x, z, 1, Undef, 0)

\* ------------------------------------------------- calculateSectorTimes
\* the state made for an identity that has none (s1Ts, s2Ts, s3Ts are not
\* in the literal, so they are undefined)
NewSectorState(i) ==
    [lastLapCountRaw |-> i.lapCountRaw,
     lapStartTs |-> i.now,
     lapLengthMeters |-> Undef,
     lastLastLapTimeMs |-> 0,
     s1End |-> DefaultS1End,
     s2End |-> DefaultS2End,
     currentSector |-> 1,
     s1Ts |-> Undef,
     s2Ts |-> Undef,
     s3Ts |-> Undef,
     sector1TimeMs |-> 0,
     sector2TimeMs |-> 0,
     sector3TimeMs |-> 0,
     lastLapDistance |-> i.lapDistance]

\* let st = states.get(carId); if (!st) { st = {...}; states.set(...) }
GetOrCreate(m, i) ==
    IF i.carId \in DOMAIN m THEN m[i.carId] ELSE NewSectorState(i)

\* if (trackMap && trackMap.lengthMeters > 0) { ... }
ApplyTrackMap(st, i) ==
    IF i.trackMap.present /\ i.trackMap.lengthMeters > 0
    THEN IF Len(i.trackMap.sectorFractions) >= 2
         THEN [st EXCEPT !.lapLengthMeters = i.trackMap.lengthMeters,
                         !.s1End = i.trackMap.sectorFractions[1],
                         !.s2End = i.trackMap.sectorFractions[2]]
         ELSE [st EXCEPT !.lapLengthMeters = i.trackMap.lengthMeters]
    ELSE st

\* the test without its lower bound
SaneLapLength_NoLowerBound(d) == d < MaxLapLength

\* the sane-lap-length test
SaneLapLength(d) == d > MinLapLength /\ d < MaxLapLength

\* the learning test without `!trackMap`
CanLearn_WithMap(st, i) ==
    /\ i.lastLapTimeMs > 0
    /\ i.lastLapTimeMs /= st.lastLastLapTimeMs

\* !trackMap && lastLapTimeMs > 0 && lastLapTimeMs !== st.lastLastLapTimeMs
CanLearn(st, i) ==
    /\ ~i.trackMap.present
    /\ i.lastLapTimeMs > 0
    /\ i.lastLapTimeMs /= st.lastLastLapTimeMs

\* the learning branch of the rollover
LearnLapLength(st, i) ==
    IF CanLearn(st, i)
    THEN [st EXCEPT !.lapLengthMeters =
                        IF SaneLapLength(i.lapDistance)
                        THEN i.lapDistance ELSE @,
                    !.lastLastLapTimeMs = i.lastLapTimeMs]
    ELSE IF i.trackMap.present
    THEN [st EXCEPT !.lastLastLapTimeMs = i.lastLapTimeMs]
    ELSE st

\* a reset that clears the timestamps and leaves the durations
ResetSectorTiming_KeepDurations(st, now) ==
    [st EXCEPT !.lapStartTs = now,
               !.currentSector = 1,
               !.s1Ts = Undef,
               !.s2Ts = Undef,
               !.s3Ts = Undef]

\* the reset sequence shared by the rollover and the jitter guard
ResetSectorTiming(st, now) ==
    [st EXCEPT !.lapStartTs = now,
               !.currentSector = 1,
               !.s1Ts = Undef,
               !.s2Ts = Undef,
               !.s3Ts = Undef,
               !.sector1TimeMs = 0,
               !.sector2TimeMs = 0,
               !.sector3TimeMs = 0]

\* lapCountRaw !== st.lastLapCountRaw
IsRollover(st, i) == i.lapCountRaw /= st.lastLapCountRaw

\* if (lapCountRaw !== st.lastLapCountRaw) { ... }
LapRollover(st, i) ==
    IF IsRollover(st, i)
    THEN [ResetSectorTiming(LearnLapLength(st, i), i.now)
             EXCEPT !.lastLapCountRaw = i.lapCountRaw]
    ELSE st

\* lapDistance + 50 < st.lastLapDistance
IsRegression(st, i) == i.lapDistance + JitterMeters < st.lastLapDistance

\* if (lapDistance + 50 < st.lastLapDistance) { ... }
\* st.lastLapDistance = lapDistance
JitterGuard(st, i) ==
    [(IF IsRegression(st, i)
      THEN ResetSectorTiming(st, i.now) ELSE st)
        EXCEPT !.lastLapDistance = i.lapDistance]

\* the two branches tried in the other order: lapDistance before position
LapFraction_DistanceFirst(st, i) ==
    IF Truthy(st.lapLengthMeters) /\ i.lapDistance > 0
    THEN clamp01(i.lapDistance, st.lapLengthMeters)
    ELSE IF i.trackMap.present /\ i.pos.defined
    THEN Frac(getDistanceAlongTrack(i.trackMap.centerline, i.pos.x, i.pos.z),
              100)
    ELSE Frac(0, 1)

\* let lapFraction = 0; if (...) ... else if (...) ...
LapFraction(st, i) ==
    IF i.trackMap.present /\ i.pos.defined
    THEN Frac(getDistanceAlongTrack(i.trackMap.centerline, i.pos.x, i.pos.z),
              100)
    ELSE IF Truthy(st.lapLengthMeters) /\ i.lapDistance > 0
    THEN clamp01(i.lapDistance, st.lapLengthMeters)
    ELSE Frac(0, 1)

\* the guard without its test of the lap length
CanTransition_NoLength(st, i, f) ==
    \/ f.num > 0
    \/ i.trackMap.present /\ Len(i.trackMap.centerline) > 0

\* the guard of the transition block
CanTransition(st, i, f) ==
    /\ Truthy(st.lapLengthMeters)
    /\ \/ f.num > 0
       \/ i.trackMap.present /\ Len(i.trackMap.centerline) > 0

\* the two tests as two `if`s: both can fire in one call
SectorTransition_Both(st, i, f) ==
    IF ~CanTransition(st, i, f) THEN st
    ELSE LET st2 == IF st.currentSector = 1 /\ FracGE(f, st.s1End)
                    THEN [st EXCEPT !.sector1TimeMs = i.now - st.lapStartTs,
                                    !.s1Ts = i.now,
                                    !.currentSector = 2]
                    ELSE st
         IN  IF st2.currentSector = 2 /\ FracGE(f, st2.s2End)
             THEN [st2 EXCEPT !.sector2TimeMs =
                                  IF Truthy(st2.s1Ts) THEN i.now - st2.s1Ts
                                  ELSE 0,
                              !.s2Ts = i.now,
                              !.currentSector = 3]
             ELSE st2

\* if (st.currentSector === 1 && ...) ... else if (st.currentSector === 2 ...
SectorTransition(st, i, f) ==
    IF ~CanTransition(st, i, f) THEN st
    ELSE IF st.currentSector = 1 /\ FracGE(f, st.s1End)
    THEN [st EXCEPT !.sector1TimeMs = i.now - st.lapStartTs,
                    !.s1Ts = i.now,
                    !.currentSector = 2]
    ELSE IF st.currentSector = 2 /\ FracGE(f, st.s2End)
    THEN [st EXCEPT !.sector2TimeMs =
                        IF Truthy(st.s1Ts) THEN i.now - st.s1Ts ELSE 0,
                    !.s2Ts = i.now,
                    !.currentSector = 3]
    ELSE st

\* runningMs of the sector the tracker is in
RunningMs(st, now) ==
    IF st.currentSector = 1 THEN now - st.lapStartTs
    ELSE IF st.currentSector = 2
    THEN (IF Truthy(st.s1Ts) THEN now - st.s1Ts ELSE 0)
    ELSE (IF Truthy(st.s2Ts) THEN now - st.s2Ts ELSE 0)

\* if (st.currentSector === 3 && st.s2Ts) st.sector3TimeMs = runningMs
UpdateSector3(st, i) ==
    IF st.currentSector = 3 /\ Truthy(st.s2Ts)
    THEN [st EXCEPT !.sector3TimeMs = RunningMs(st, i.now)]
    ELSE st

\* x > 0 ? x : undefined
PositiveOrUndef(x) == IF x > 0 THEN x ELSE Undef

\* the returned SectorData
SectorData(st, f) ==
    [lapLengthMeters |-> st.lapLengthMeters,
     currentSector |-> st.currentSector,
     isNull |-> FALSE,
     sector1Time |-> PositiveOrUndef(st.sector1TimeMs),
     sector2Time |-> PositiveOrUndef(st.sector2TimeMs),
     sector3Time |-> PositiveOrUndef(st.sector3TimeMs),
     lapFraction |-> f]

\* `return null`
NullData ==
    [lapLengthMeters |-> Undef, currentSector |-> 1, isNull |-> TRUE,
     sector1Time |-> Undef, sector2Time |-> Undef, sector3Time |-> Undef,
     lapFraction |-> Frac(0, 1)]

NoBranches ==
    [fresh |-> FALSE, rolled |-> FALSE, learn |-> FALSE, jitter |-> FALSE,
     fired |-> FALSE]

\* one state object shared by every identity
SetState_Shared(m, carId, st) ==
    [c \in DOMAIN m \cup {carId} |-> st]

\* states.set(carId, st), and the mutations of st that follow it
SetState(m, carId, st) ==
    [c \in DOMAIN m \cup {carId} |-> IF c = carId THEN st ELSE m[c]]

\* calculateSectorTimes: the map after the call, the value returned, and
\* which blocks of the call ran (the state was created; the rollover block;
\* its learning branch; the jitter block; a sector transition)
calculateSectorTimes(m, i) ==
    IF i.carId = 0
    THEN [states |-> m, data |-> NullData, ran |-> NoBranches]
    ELSE LET st1 == ApplyTrackMap(GetOrCreate(m, i), i)
             st2 == LapRollover(st1, i)
             st3 == JitterGuard(st2, i)
             lapFraction == LapFraction(st3, i)
             st4 == SectorTransition(st3, i, lapFraction)
             st5 == UpdateSector3(st4, i)
         IN  [states |-> SetState(m, i.carId, st5),
              data |-> SectorData(st5, lapFraction),
              ran |-> [fresh |-> i.carId \notin DOMAIN m,
                       rolled |-> IsRollover(st1, i),
                       learn |-> IsRollover(st1, i) /\ CanLearn(st1, i),
                       jitter |-> IsRegression(st2, i),
                       fired |-> st4.currentSector /= st3.currentSector]]

\* a reset that deletes nothing
resetSectorTimesForCar_Keep(m, carId) == m

\* resetSectorTimesForCar: states.delete(carId)
resetSectorTimesForCar(m, carId) ==
    [c \in DOMAIN m \ {carId} |-> m[c]]

\* ------------------------------------------------------------- listener
\* a field of the listener that is null
Null == 0

\* new GT7Listener(): the field initialisers
NewListener ==
    [socket |-> Null, psIP |-> "null", heartbeatInterval |-> Null,
     onPacketCallback |-> Null, isRunning |-> FALSE]

\* the surroundings of the listener: the sockets that are open, the
\* intervals that are set, the 'message' events waiting for their handler
\* (socket, datagram), in arrival order; and what has happened so far: the
\* sessions started, the sessions stopped, the datagrams that arrived, the
\* heartbeats sent and the (callback, datagram) pairs dispatched.
QuietNet ==
    [open |-> {}, listening |-> {}, timers |-> {}, inbox |-> << >>,
     started |-> 0, stopped |-> {}, arrived |-> << >>, beats |-> 0,
     dispatched |-> << >>]

\* decrypt needs 0x44 bytes, parsePacket MIN_PACKET_LEN
MinDecryptLen == 68
MIN_PACKET_LEN == 296

\* a datagram: the number of its arrival, its length, and whether the
\* decrypted bytes begin with GT7_MAGIC
Datagram(id, len, magic) == [id |-> id, len |-> len, magic |-> magic]
\* too short to decrypt; too short to parse; a variant-A packet
DatagramLengths == {60, 100, 296}
\* the PlayStation's address given to start: empty, or an address
Addresses == {"", "192.168.0.2"}

\* decrypt(data): null (len 0) or the decrypted buffer, as long as data
decrypt(msg) ==
    IF msg.len < MinDecryptLen \/ ~msg.magic
    THEN Datagram(msg.id, 0, FALSE)
    ELSE msg

\* parsePacket(data): null (0) or the packet, known here by its datagram
parsePacket(data) == IF data.len < MIN_PACKET_LEN THEN Null ELSE data.id

\* a stop that releases the socket and leaves the interval running
stop_KeepInterval(l, n) ==
    <<[l EXCEPT !.socket = Null, !.psIP = "null",
                !.onPacketCallback = Null,
                !.isRunning = FALSE],
      [n EXCEPT !.open = @ \ {l.socket},
                !.listening = @ \ {l.socket},
                !.inbox = SelectSeq(@, LAMBDA e : e[1] /= l.socket),
                !.stopped = @ \cup ({l.onPacketCallback} \ {Null})]>>

\* stop(): the listener and its surroundings after the call
stop(l, n) ==
    <<[l EXCEPT !.socket = Null, !.psIP = "null",
                !.heartbeatInterval = Null, !.onPacketCallback = Null,
                !.isRunning = FALSE],
      [n EXCEPT !.open = @ \ {l.socket},
                !.listening = @ \ {l.socket},
                !.timers = @ \ {l.heartbeatInterval},
                !.inbox = SelectSeq(@, LAMBDA e : e[1] /= l.socket),
                !.stopped = @ \cup ({l.onPacketCallback} \ {Null})]>>

\* sendHeartbeat(): one more heartbeat sent, when there is a socket and an
\* address
sendHeartbeat(l, n) ==
    IF l.socket = Null \/ l.psIP \in {"null", ""}
    THEN n
    ELSE [n EXCEPT !.beats = @ + 1]

\* a start that does not stop the session that is running
start_NoStop(l, n, psIP, fail) ==
    LET k == n.started + 1
        l1 == [l EXCEPT !.psIP = psIP, !.onPacketCallback = k,
                        !.isRunning = TRUE]
        n1 == [n EXCEPT !.started = k]
        l2 == [l1 EXCEPT !.socket = k]
        n2 == [n1 EXCEPT !.open = @ \cup {k}]
        n3 == sendHeartbeat(l2, [n2 EXCEPT !.listening = @ \cup {k}])
    IN  IF fail = "create" THEN <<l1, n1>>
        ELSE IF fail = "bind" THEN <<l2, n2>>
        ELSE <<[l2 EXCEPT !.heartbeatInterval = k],
               [n3 EXCEPT !.timers = @ \cup {k}]>>

\* start(psIP, onPacket), where createSocket throws (fail = "create"), bind
\* throws (fail = "bind") or nothing does; the callback, the socket and the
\* interval of the k-th start are numbered k
start(l, n, psIP, fail) ==
    LET was == IF l.isRunning THEN stop(l, n) ELSE <<l, n>>
        k == n.started + 1
        l1 == [was[1] EXCEPT !.psIP = psIP, !.onPacketCallback = k,
                             !.isRunning = TRUE]
        n1 == [was[2] EXCEPT !.started = k]
        l2 == [l1 EXCEPT !.socket = k]
        n2 == [n1 EXCEPT !.open = @ \cup {k}]
        n3 == sendHeartbeat(l2, [n2 EXCEPT !.listening = @ \cup {k}])
    IN  IF fail = "create" THEN <<l1, n1>>
        ELSE IF fail = "bind" THEN <<l2, n2>>
        ELSE <<[l2 EXCEPT !.heartbeatInterval = k],
               [n3 EXCEPT !.timers = @ \cup {k}]>>

\* a handler that dispatches what decrypts, parsed or not
onMessage_Unparsed(l, n, msg) ==
    LET decrypted == decrypt(msg)
    IN  IF decrypted.len = 0 THEN n
        ELSE IF l.onPacketCallback = Null THEN n
        ELSE [n EXCEPT !.dispatched =
                           Append(@, <<l.onPacketCallback, decrypted.id>>)]

\* the 'message' handler on datagram msg: the pairs dispatched after it
onMessage(l, n, msg) ==
    LET decrypted == decrypt(msg)
        packet == parsePacket(decrypted)
    IN  IF decrypted.len = 0 THEN n
        ELSE IF packet = Null THEN n
        ELSE IF l.onPacketCallback = Null THEN n
        ELSE [n EXCEPT !.dispatched =
                           Append(@, <<l.onPacketCallback, packet>>)]

\* ---------------------------------------------------------- track capture
\* a float read off the wire that is not a number (readFloatLE validates
\* nothing), and the -Infinity the downsampling loop starts from
NaN == -1000
MinusInfinity == -2000

\* a <= b and a > b of JavaScript: false when an operand is NaN
LessEq(a, b) == a /= NaN /\ b /= NaN /\ a <= b
Greater(a, b) == a /= NaN /\ b /= NaN /\ a > b

\* v || 0
OrZero(v) == IF v = NaN THEN 0 ELSE v

\* Math.sqrt on the integer n, rounded down (the captured positions are
\* chosen so that every root taken is exact)
Sqrt(n) == CHOOSE r \in 0..n : r * r <= n /\ (r + 1) * (r + 1) > n

\* a / b of JavaScript for 0 <= a <= b, held exactly; 0 / 0 is NaN
Div(a, b) == Frac(a, b)
IsNaN(f) == f.den = 0

\* captureSession = null
NoSession ==
    [trackId |-> "", isActive |-> FALSE, points |-> << >>, exists |-> FALSE]

\* nothing saved, nothing sent to the renderer
EmptyStore == [laps |-> << >>, lapComplete |-> 0, trackMaps |-> << >>]

\* a raw point of a session and a point of a processed centerline (the
\* timestamp, which is only carried along, is left out)
CapturedPoint(x, z, d, speed) == [x |-> x, z |-> z, d |-> d, speed |-> speed]

\* the TrackMap processTrackCapture returns, and its null
CapturedMap(trackId, lengthMeters, centerline, capturedAt) ==
    [lengthMeters |-> lengthMeters, centerline |-> centerline,
     sectorFractions |-> << >>, present |-> TRUE, trackId |-> trackId,
     capturedAt |-> capturedAt]

NullMap ==
    [lengthMeters |-> 0, centerline |-> << >>, sectorFractions |-> << >>,
     present |-> FALSE, trackId |-> "", capturedAt |-> 0]

\* a start that keeps the points of the session there was
startTrackCapture_KeepPoints(session, trackId) ==
    [trackId |-> trackId, isActive |-> TRUE, points |-> session.points,
     exists |-> TRUE]

\* startTrackCapture(trackId), session being the one there was
startTrackCapture(session, trackId) ==
    [trackId |-> trackId, isActive |-> TRUE, points |-> << >>,
     exists |-> TRUE]

stopTrackCapture(session) ==
    IF session.exists THEN [session EXCEPT !.isActive = FALSE] ELSE session

\* a clear that clears nothing
clearCaptureSession_Keep(session) == session

clearCaptureSession(session) == NoSession

\* recordTrackPoint(packet): the session after the call (the parser always
\* gives the packet a position object)
recordTrackPoint(session, packet) ==
    IF ~session.exists \/ ~session.isActive THEN session
    ELSE IF LessEq(packet.speedKmh, 5) THEN session
    ELSE IF packet.position.x = 0 /\ packet.position.z = 0 THEN session
    ELSE [session EXCEPT !.points =
              Append(@, CapturedPoint(packet.position.x, packet.position.z,
                                      OrZero(packet.lapDistance),
                                      packet.speedKmh))]

\* a segment measured by the recorded lap distance
segmentDistance_LapDistance(prev, point) ==
    IF point.d >= prev.d THEN point.d - prev.d ELSE prev.d - point.d

\* Math.sqrt(dx * dx + dz * dz)
segmentDistance(prev, point) ==
    LET dx == point.x - prev.x
        dz == point.z - prev.z
    IN  Sqrt(dx * dx + dz * dz)

RECURSIVE pointsWithDistance(_, _, _, _)
\* the loop over the filtered points kept from index i on: acc holds the points done,
\* each with its cumulativeD
pointsWithDistance(kept, i, cumulativeDistance, acc) ==
    IF i > Len(kept) THEN acc
    ELSE LET point == kept[i]
             c == IF i > 1
                  THEN cumulativeDistance
                       + segmentDistance(kept[i - 1], point)
                  ELSE cumulativeDistance
         IN  pointsWithDistance(kept, i + 1, c,
                 Append(acc, [x |-> point.x, z |-> point.z, d |-> point.d,
                              speed |-> point.speed, cumulativeD |-> c]))

\* point.cumulativeD - lastCumulativeD >= 0.5
Advanced(cumulativeD, lastCumulativeD) ==
    \/ lastCumulativeD = MinusInfinity
    \/ 2 * (cumulativeD - lastCumulativeD) >= 1

RECURSIVE downsampled(_, _, _, _, _)
\* the downsampling loop from index i on
downsampled(pwd, trackLength, i, lastCumulativeD, acc) ==
    IF i > Len(pwd) THEN acc
    ELSE IF Advanced(pwd[i].cumulativeD, lastCumulativeD)
    THEN downsampled(pwd, trackLength, i + 1, pwd[i].cumulativeD,
             Append(acc, CapturedPoint(pwd[i].x, pwd[i].z,
                                       Div(pwd[i].cumulativeD, trackLength),
                                       pwd[i].speed)))
    ELSE downsampled(pwd, trackLength, i + 1, lastCumulativeD, acc)

\* a filter that lets every point through
filteredPoints_All(points) == points

\* points.filter(p => (p.speed || 0) > 5)
filteredPoints(points) ==
    SelectSeq(points, LAMBDA p : Greater(OrZero(p.speed), 5))

\* the map of processTrackCapture for the surviving points kept
CapturedMapOf(session, kept, now) ==
    LET pwd == pointsWithDistance(kept, 1, 0, << >>)
        trackLength == pwd[Len(pwd)].cumulativeD
        sparse == downsampled(pwd, trackLength, 1, MinusInfinity, << >>)
        centerline ==
            IF Len(sparse) > SparseLimit THEN sparse
            ELSE [k \in 1..Len(pwd) |->
                     CapturedPoint(pwd[k].x, pwd[k].z,
                                   Div(pwd[k].cumulativeD, trackLength),
                                   pwd[k].speed)]
    IN  CapturedMap(session.trackId, trackLength, centerline, now)

\* a processing that uses its points up
processTrackCapture_Consuming(session, now) ==
    LET kept == filteredPoints(session.points)
    IN  IF ~session.exists \/ Len(session.points) = 0 \/ Len(kept) = 0
        THEN [trackMap |-> NullMap, session |-> session]
        ELSE [trackMap |-> CapturedMapOf(session, kept, now),
              session |-> [session EXCEPT !.points = << >>]]

\* processTrackCapture(): the map returned and the session after the call;
\* new Date() is the value now
processTrackCapture(session, now) ==
    IF ~session.exists \/ Len(session.points) = 0
    THEN [trackMap |-> NullMap, session |-> session]
    ELSE LET kept == filteredPoints(session.points)
         IN  IF Len(kept) = 0
             THEN [trackMap |-> NullMap, session |-> session]
             ELSE [trackMap |-> CapturedMapOf(session, kept, now),
                   session |-> session]

\* saveTrackMap(trackMap): store.set under the key of the map's track
saveTrackMap(st, trackMap) == [st EXCEPT !.trackMaps = Append(@, trackMap)]

\* Math.sqrt: the root rounded to the nearest number there is (the numbers of
\* the model are the integers, as those of the program are the doubles)
Math_sqrt(n) ==
    LET f == Sqrt(n) IN IF n - f * f > f THEN f + 1 ELSE f

\* trackCapture.ts getDistanceAlongTrack(trackMap, posX, posZ): the same scan
\* as the one of sectorTimes.ts, on the centerline of the map
trackCapture_getDistanceAlongTrack(trackMap, posX, posZ) ==
    IF Len(trackMap.centerline) = 0 THEN 0
    ELSE NearestFrom(trackMap.centerline, posX, posZ, 1, Undef, 0)

RECURSIVE NearestPointFrom(_, _, _, _, _, _)
\* the scan of distanceAlongTrack: minDistance is the smallest rounded
\* distance so far (Undef stands for Infinity), nearestPoint the index of the
\* point that set it (0 stands for null)
NearestPointFrom(cl, x, z, i, minDistance, nearestPoint) ==
    IF i > Len(cl) THEN nearestPoint
    ELSE LET distance == Math_sqrt(DistSq(cl[i], x, z))
         IN  IF minDistance = Undef \/ distance < minDistance
             THEN NearestPointFrom(cl, x, z, i + 1, distance, i)
             ELSE NearestPointFrom(cl, x, z, i + 1, minDistance, nearestPoint)

\* distanceAlongTrack(x, z, trackMap): nearestPoint.d * lengthMeters, in
\* hundredths of a metre for a d in hundredths
distanceAlongTrack(x, z, trackMap) ==
    IF Len(trackMap.centerline) = 0 THEN 0
    ELSE LET nearestPoint ==
                 NearestPointFrom(trackMap.centerline, x, z, 1, Undef, 0)
         IN  IF nearestPoint = 0 THEN 0
             ELSE trackMap.centerline[nearestPoint].d * trackMap.lengthMeters

\* ------------------------------------------------------------ the cipher
\* a 32-bit unsigned integer is held as <<high 16 bits, low 16 bits>>, a
\* Buffer as the sequence of its bytes (offset o is index o + 1)
Word(hi, lo) == <<hi, lo>>

\* a ^ b for a and b of 0..15: row a + 1, column b + 1
XorNibble ==
    <<<<0, 1, 2, 3, 4, 5, 6, 7, 8, 9, 10, 11, 12, 13, 14, 15>>,
      <<1, 0, 3, 2, 5, 4, 7, 6, 9, 8, 11, 10, 13, 12, 15, 14>>,
      <<2, 3, 0, 1, 6, 7, 4, 5, 10, 11, 8, 9, 14, 15, 12, 13>>,
      <<3, 2, 1, 0, 7, 6, 5, 4, 11, 10, 9, 8, 15, 14, 13, 12>>,
      <<4, 5, 6, 7, 0, 1, 2, 3, 12, 13, 14, 15, 8, 9, 10, 11>>,
      <<5, 4, 7, 6, 1, 0, 3, 2, 13, 12, 15, 14, 9, 8, 11, 10>>,
      <<6, 7, 4, 5, 2, 3, 0, 1, 14, 15, 12, 13, 10, 11, 8, 9>>,
      <<7, 6, 5, 4, 3, 2, 1, 0, 15, 14, 13, 12, 11, 10, 9, 8>>,
      <<8, 9, 10, 11, 12, 13, 14, 15, 0, 1, 2, 3, 4, 5, 6, 7>>,
      <<9, 8, 11, 10, 13, 12, 15, 14, 1, 0, 3, 2, 5, 4, 7, 6>>,
      <<10, 11, 8, 9, 14, 15, 12, 13, 2, 3, 0, 1, 6, 7, 4, 5>>,
      <<11, 10, 9, 8, 15, 14, 13, 12, 3, 2, 1, 0, 7, 6, 5, 4>>,
      <<12, 13, 14, 15, 8, 9, 10, 11, 4, 5, 6, 7, 0, 1, 2, 3>>,
      <<13, 12, 15, 14, 9, 8, 11, 10, 5, 4, 7, 6, 1, 0, 3, 2>>,
      <<14, 15, 12, 13, 10, 11, 8, 9, 6, 7, 4, 5, 2, 3, 0, 1>>,
      <<15, 14, 13, 12, 11, 10, 9, 8, 7, 6, 5, 4, 3, 2, 1, 0>>>>

\* a ^ b on bytes, and on 16-bit halves of a word
ByteXor(a, b) ==
    XorNibble[(a % 16) + 1][(b % 16) + 1]
        + 16 * XorNibble[(a \div 16) + 1][(b \div 16) + 1]
BitXor(a, b) ==
    ByteXor(a % 256, b % 256) + 256 * ByteXor(a \div 256, b \div 256)

\* v ^ w, and (v + w) >>> 0, on 32-bit words
WordXor(v, w) == Word(BitXor(v[1], w[1]), BitXor(v[2], w[2]))
WordAdd(v, w) ==
    Word((v[1] + w[1] + ((v[2] + w[2]) \div 65536)) % 65536,
         (v[2] + w[2]) % 65536)

\* buf.readUInt32LE(offset) and the four bytes writeUInt32LE writes
readUInt32LE(buf, offset) ==
    Word(buf[offset + 3] + 256 * buf[offset + 4],
         buf[offset + 1] + 256 * buf[offset + 2])
BytesLE(w) == <<w[2] % 256, w[2] \div 256, w[1] % 256, w[1] \div 256>>

\* 0x47375330, and the 0xDEADBEAF of decrypt
GT7_MAGIC == Word(18231, 21296)
IvMask == Word(57005, 48815)
\* Buffer.from('Simulator Interface Packet GT7 ver 0.0')
SALSA20_KEY ==
    <<83, 105, 109, 117, 108, 97, 116, 111, 114, 32, 73, 110, 116, 101, 114,
      102, 97, 99, 101, 32, 80, 97, 99, 107, 101, 116, 32, 71, 84, 55, 32,
      118, 101, 114, 32, 48, 46, 48>>
SIGMA == <<Word(24944, 30821), Word(13088, 25710), Word(31074, 11570),
           Word(27424, 25972)>>

\* ((v << n) | (v >>> (32 - n))) >>> 0 for 0 < n < 32
rotl(v, n) ==
    LET w == IF n >= 16 THEN Word(v[2], v[1]) ELSE v
        m == n % 16
    IN  IF m = 0 THEN w
        ELSE Word(((w[1] * 2^m) % 65536) + (w[2] \div 2^(16 - m)),
                  ((w[2] * 2^m) % 65536) + (w[1] \div 2^(16 - m)))

\* one line of quarterRound: y[t] = (y[t] ^ rotl((y[p] + y[q]) >>> 0, n))
\* >>> 0 (y[i] is held at index i + 1)
Mix(y, t, p, q, n) ==
    [y EXCEPT ![t + 1] = WordXor(@, rotl(WordAdd(y[p + 1], y[q + 1]), n))]

\* quarterRound(y, a, b, c, d): y after its four lines
quarterRound(y, a, b, c, d) ==
    Mix(Mix(Mix(Mix(y, b, a, d, 7), c, b, a, 9), d, c, b, 13), a, d, c, 18)

\* one pass of the loop of salsa20Block: column rounds, then row rounds
DoubleRound(w) ==
    LET c1 == quarterRound(w, 0, 4, 8, 12)
        c2 == quarterRound(c1, 5, 9, 13, 1)
        c3 == quarterRound(c2, 10, 14, 2, 6)
        c4 == quarterRound(c3, 15, 3, 7, 11)
        r1 == quarterRound(c4, 0, 1, 2, 3)
        r2 == quarterRound(r1, 5, 6, 7, 4)
        r3 == quarterRound(r2, 10, 11, 8, 9)
    IN  quarterRound(r3, 15, 12, 13, 14)

RECURSIVE Rounds(_, _)
\* the remaining i - 1 passes on the words the last pass left
RoundsAfter(next, i) == IF Len(next) = 16 THEN Rounds(next, i - 1) ELSE next
Rounds(w, i) == IF i = 0 THEN w ELSE RoundsAfter(DoubleRound(w), i)

RECURSIVE WordsLE(_)
\* the bytes output.writeUInt32LE writes for the words ws, in order
WordsLE(ws) ==
    IF ws = << >> THEN << >> ELSE BytesLE(Head(ws)) \o WordsLE(Tail(ws))

\* salsa20Block(key, nonce, counter): the 64 bytes of keystream (counter
\* is below 2^16 here, so ctr1 is 0)
salsa20Block(key, nonce, counter) ==
    LET k == [i \in 1..8 |-> readUInt32LE(key, (i - 1) * 4)]
        n0 == readUInt32LE(nonce, 0)
        n1 == readUInt32LE(nonce, 4)
        state == <<SIGMA[1], k[1], k[2], k[3], k[4], SIGMA[2], n0, n1,
                   Word(0, counter), Word(0, 0), SIGMA[3], k[5], k[6], k[7],
                   k[8], SIGMA[4]>>
        working == Rounds(state, 10)
    IN  WordsLE([i \in 1..16 |-> WordAdd(working[i], state[i])])

RECURSIVE Keystream(_, _, _, _)
\* the blocks the loop of salsa20Crypt generates for length bytes of data,
\* the first with this counter
Keystream(key, nonce, counter, length) ==
    IF length <= 0 THEN << >>
    ELSE salsa20Block(key, nonce, counter)
             \o Keystream(key, nonce, counter + 1, length - 64)

\* salsa20Crypt(data, key, nonce): data XOR keystream, block by block
salsa20Crypt(data, key, nonce) ==
    LET block == Keystream(key, nonce, 0, Len(data))
    IN  [j \in 1..Len(data) |-> ByteXor(data[j], block[j])]

\* what decrypt gives its caller: null, a Buffer, or the RangeError of a
\* read outside the buffer that no try block catches
NoBuffer == [returned |-> "null", bytes |-> << >>]
Thrown == [returned |-> "RangeError", bytes |-> << >>]
Returned(buffer) == [returned |-> "buffer", bytes |-> buffer]

\* readUInt32LE(offset) throws unless offset + 4 <= buf.length
InRange(buf, offset) == offset + 4 <= Len(buf)

\* lines 170-175: the nonce of iv1, and the same with 0xDEADBEEF
nonceOf_Beef(iv1) ==
    BytesLE(WordXor(iv1, Word(57005, 48879))) \o BytesLE(iv1)
nonceOf(iv1) == BytesLE(WordXor(iv1, IvMask)) \o BytesLE(iv1)

\* lines 180-190: the magic number of the transformed bytes decides; the
\* same reading the magic number with the high byte first
verifyMagic_BigEndian(decrypted) ==
    IF ~InRange(decrypted, 0) THEN NoBuffer
    ELSE IF Word(decrypted[2] + 256 * decrypted[1],
                 decrypted[4] + 256 * decrypted[3]) # GT7_MAGIC
         THEN NoBuffer
    ELSE Returned(decrypted)
verifyMagic(decrypted) ==
    IF ~InRange(decrypted, 0) THEN NoBuffer
    ELSE IF readUInt32LE(decrypted, 0) # GT7_MAGIC THEN NoBuffer
    ELSE Returned(decrypted)

\* decrypt with the length test of line 164 four bytes too low
telemetry_decrypt_Short(data) ==
    IF Len(data) < MinDecryptLen - 4 THEN NoBuffer
    ELSE IF ~InRange(data, 64) THEN Thrown
    ELSE verifyMagic(salsa20Crypt(data, SubSeq(SALSA20_KEY, 1, 32),
                                  nonceOf(readUInt32LE(data, 64))))

\* decrypt(data) of telemetry.ts, on the bytes of the datagram
telemetry_decrypt(data) ==
    IF Len(data) < MinDecryptLen THEN NoBuffer
    ELSE IF ~InRange(data, 64) THEN Thrown
    ELSE verifyMagic(salsa20Crypt(data, SubSeq(SALSA20_KEY, 1, 32),
                                  nonceOf(readUInt32LE(data, 64))))

\* ---------------------------------------------------------------- calls
Init ==
    /\ states = << >>
    /\ last = [op |-> "none", args |-> IdOnly(0), result |-> NullData,
               branch |-> NoBranches, deleted |-> FALSE, afterReset |-> FALSE]
    /\ calls = 0
    /\ listener = FALSE
    /\ currentLap = 0
    /\ lapTelemetry = << >>
    /\ gt7 = NewListener
    /\ net = QuietNet
    /\ captureSession = NoSession
    /\ store = EmptyStore

\* the operation before this one was a reset that deleted the state of carId
AfterResetOf(carId) ==
    last.op = "reset" /\ last.deleted /\ last.args.carId = carId

\* a caller invokes calculateSectorTimes(i)
Calculate(i, budget) ==
    LET r == calculateSectorTimes(states, i)
    IN  /\ calls < budget
        /\ calls' = calls + 1
        /\ states' = r.states
        /\ last' = [op |-> "calc", args |-> i, result |-> r.data,
                    branch |-> r.ran, deleted |-> FALSE,
                    afterReset |-> AfterResetOf(i.carId)]
        /\ UNCHANGED <<listener, currentLap, lapTelemetry>>
        /\ UNCHANGED <<listenerVars, captureVars>>

\* a caller invokes resetSectorTimesForCar(carId)
Reset(carId, budget) ==
    /\ calls < budget
    /\ calls' = calls + 1
    /\ states' = resetSectorTimesForCar(states, carId)
    /\ last' = [op |-> "reset", args |-> IdOnly(carId), result |-> NullData,
                branch |-> NoBranches, deleted |-> carId \in DOMAIN states,
                afterReset |-> FALSE]
    /\ UNCHANGED <<listener, currentLap, lapTelemetry>>
    /\ UNCHANGED <<listenerVars, captureVars>>

\* ---- Spec: one vehicle, calculateSectorTimes called as the connect handler
\* calls it (no track map, no position), with any timestamp
CalculateNoMap ==
    \E n \in LapCounts, dist \in Distances, t \in LapTimes, now \in Times :
        Calculate(Input(Car, n, dist, t, NoPos, NoMap, now), MaxCalls)

\* a sample without a vehicle identity (the bytes at 0x124 are zero)
CalculateNoCar ==
    \E n \in LapCounts, dist \in Distances :
        Calculate(Input(0, n, dist, 0, NoPos, NoMap, 0), MaxCalls)

ResetCar == \E c \in {0, Car} : Reset(c, MaxCalls)

Next == CalculateNoMap \/ CalculateNoCar \/ ResetCar

Spec == Init /\ [][Next]_vars

\* ---- SpecCars: the samples of two vehicles interleaved
CalculateCars ==
    \E c \in TwoCars, n \in LapCounts, dist \in CarDistances, t \in LapTimes,
       now \in Times :
        Calculate(Input(c, n, dist, t, NoPos, NoMap, now), MaxCarCalls)

ResetCars == \E c \in TwoCars : Reset(c, MaxCarCalls)

NextCars == CalculateCars \/ ResetCars

SpecCars == Init /\ [][NextCars]_vars

\* ---- SpecMap: one vehicle, calculateSectorTimes called with and without a
\* track map and a position
CalculateWithMap ==
    \E n \in LapCounts, dist \in MapDistances, t \in MapLapTimes,
       mp \in MapInputs, now \in Times :
        Calculate(Input(Car, n, dist, t, mp[2], mp[1], now), MaxMapCalls)

ResetMapCar == Reset(Car, MaxMapCalls)

NextMap == CalculateWithMap \/ ResetMapCar

SpecMap == Init /\ [][NextMap]_vars

\* ---- SpecBoundaries: one vehicle, calculateSectorTimes called with track
\* maps with and without sector fractions
\* no map; MapA, as processTrackCapture returns it; MapB; a map with one
\* fraction; a map with the fractions 0.40 and 1.00; and a map of length 0
\* (a capture of one position) given the fractions 0.40 and 1.00 by
\* saveTrackMapSectors
BoundaryMaps ==
    {NoMap, MapA, MapB, TrackMap(1700, Centerline3, <<50>>),
     TrackMap(1700, Centerline3, <<40, 100>>),
     TrackMap(0, Centerline3, <<40, 100>>)}

CalculateBoundaries ==
    \E n \in LapCounts, dist \in MapDistances, t \in MapLapTimes,
       mp \in BoundaryMaps :
        Calculate(Input(Car, n, dist, t, NoPos, mp, 1), MaxMapCalls)

NextBoundaries == CalculateBoundaries \/ ResetMapCar

SpecBoundaries == Init /\ [][NextBoundaries]_vars

\* the alternate counter trusted whenever it is not zero
ResolveCurrentLap_NonZero(currentLapAlt, lapCountRaw) ==
    IF currentLapAlt # 0 THEN currentLapAlt
    ELSE IF lapCountRaw > 0 THEN lapCountRaw ELSE 0

\* ---- SpecIngest: the connect handler, its packet callback, disconnect
\* parsePacket: currentLapAlt > 0 ? currentLapAlt : Math.max(0, lapCountRaw)
ResolveCurrentLap(currentLapAlt, lapCountRaw) ==
    IF currentLapAlt > 0 THEN currentLapAlt
    ELSE IF lapCountRaw > 0 THEN lapCountRaw ELSE 0

\* the point the callback appends to the lap buffer
TelemetryPoint(tick, lapDistance) ==
    [lapDistance |-> lapDistance, tick |-> tick]

\* ipcMain.handle('connect'): stop the listener there is, start a new one
\* (afterReset: the operation before it was a disconnect)
Connect ==
    /\ listener' = TRUE
    /\ last' = [op |-> "connect", args |-> IdOnly(0), result |-> NullData,
                branch |-> NoBranches, deleted |-> FALSE,
                afterReset |-> last.op = "disconnect"]
    /\ UNCHANGED <<states, calls, currentLap, lapTelemetry>>
    /\ UNCHANGED <<listenerVars, captureVars>>

\* the decoded packet the callback is given: the fields handed to
\* calculateSectorTimes (i) and those read by the capture and the lap buffer
Sample(i, speedKmh, position, packetLap) ==
    [carId |-> i.carId, lapCountRaw |-> i.lapCountRaw,
     lapDistance |-> i.lapDistance, lastLapTimeMs |-> i.lastLapTimeMs,
     pos |-> i.pos, trackMap |-> i.trackMap, now |-> i.now,
     currentLap |-> packetLap, speedKmh |-> speedKmh,
     position |-> position]

\* the lap metadata of the lap just finished
Lap(carId, lapTimeMs) == [carId |-> carId, lapTimeMs |-> lapTimeMs]

\* lapTelemetry.map((point, index) => ({...point, tick: index}))
telemetryWithLapId(buf) ==
    [index \in 1..Len(buf) |-> [buf[index] EXCEPT !.tick = index - 1]]

\* saveLap(lap, telemetry): an append-only write of the lap and its trace
saveLap(st, lap, telemetry) ==
    [st EXCEPT !.laps = Append(@, [lap |-> lap, telemetry |-> telemetry])]

\* a lap detection that does not empty the buffer at a lap change
lapCompletion_KeepBuffer(lap0, buf, st, packet) ==
    [currentLap |-> packet.currentLap,
     lapTelemetry |->
         Append(buf, TelemetryPoint(Len(buf), packet.lapDistance)),
     store |->
         IF packet.currentLap /= lap0 /\ lap0 > 0 /\ Len(buf) > 0
         THEN [saveLap(st, Lap(packet.carId, packet.lastLapTimeMs),
                       telemetryWithLapId(buf))
                  EXCEPT !.lapComplete = @ + 1]
         ELSE st]

\* a lap detection that buffers the sample before it looks at its lap index
lapCompletion_PushFirst(lap0, buf, st, packet) ==
    LET all == Append(buf, TelemetryPoint(Len(buf), packet.lapDistance))
    IN  IF packet.currentLap /= lap0
        THEN [currentLap |-> packet.currentLap,
              lapTelemetry |-> << >>,
              store |->
                  IF lap0 > 0 /\ Len(buf) > 0
                  THEN [saveLap(st, Lap(packet.carId, packet.lastLapTimeMs),
                                telemetryWithLapId(all))
                           EXCEPT !.lapComplete = @ + 1]
                  ELSE st]
        ELSE [currentLap |-> lap0, lapTelemetry |-> all, store |-> st]

\* "Detect lap completion" and "Accumulate telemetry for current lap": the
\* lap index, the buffer and the store after them; lap0 and buf are the lap
\* index and the buffer before (the window is open whenever a packet is
\* handled: closing it stops the listener)
lapCompletion(lap0, buf, st, packet) ==
    IF packet.currentLap /= lap0
    THEN [currentLap |-> packet.currentLap,
          lapTelemetry |-> <<TelemetryPoint(0, packet.lapDistance)>>,
          store |->
              IF lap0 > 0 /\ Len(buf) > 0
              THEN [saveLap(st, Lap(packet.carId, packet.lastLapTimeMs),
                            telemetryWithLapId(buf))
                       EXCEPT !.lapComplete = @ + 1]
              ELSE st]
    ELSE [currentLap |-> lap0,
          lapTelemetry |->
              Append(buf, TelemetryPoint(Len(buf), packet.lapDistance)),
          store |-> st]

\* the callback given to listener.start, run on a decoded packet; Date.now()
\* is the value now; deleted: the callback reset the vehicle's state
OnPacket(packet, budget) ==
    LET i == Input(packet.carId, packet.lapCountRaw, packet.lapDistance,
                   packet.lastLapTimeMs, NoPos, NoMap, packet.now)
        r == calculateSectorTimes(states, i)
        newLap == packet.currentLap /= currentLap
        after == lapCompletion(currentLap, lapTelemetry, store, packet)
    IN  /\ listener
        /\ calls < budget
        /\ calls' = calls + 1
        /\ captureSession' = recordTrackPoint(captureSession, packet)
        /\ states' = IF newLap /\ currentLap > 0
                      THEN resetSectorTimesForCar(r.states, packet.carId)
                      ELSE r.states
        /\ currentLap' = after.currentLap
        /\ lapTelemetry' = after.lapTelemetry
        /\ store' = after.store
        /\ last' = [op |-> "packet", args |-> packet, result |-> r.data,
                    branch |-> r.ran,
                    deleted |-> newLap /\ currentLap > 0
                                /\ packet.carId \in DOMAIN r.states,
                    afterReset |-> FALSE]
        /\ UNCHANGED listener
        /\ UNCHANGED listenerVars

\* the packets of SpecIngest: a moving vehicle away from the origin
Packet ==
    \E n \in LapCounts, alt \in AltLaps, dist \in PacketDistances,
       t \in PacketLapTimes, now \in Times :
        OnPacket(Sample(Input(Car, n, dist, t, NoPos, NoMap, now), 6,
                        Position(3, 4), ResolveCurrentLap(alt, n)),
                 MaxPackets)

\* ipcMain.handle('disconnect')
Disconnect ==
    /\ listener' = FALSE
    /\ currentLap' = 0
    /\ lapTelemetry' = << >>
    /\ last' = [op |-> "disconnect", args |-> IdOnly(0),
                result |-> NullData, branch |-> NoBranches,
                deleted |-> FALSE, afterReset |-> FALSE]
    /\ UNCHANGED <<states, calls>>
    /\ UNCHANGED <<listenerVars, captureVars>>

NextIngest == Connect \/ Packet \/ Disconnect

SpecIngest == Init /\ [][NextIngest]_vars

\* ---- SpecListener: one GT7Listener object started, stopped and fed
\* the record of a listener event
ListenerOp(name) ==
    [op |-> name, args |-> IdOnly(0), result |-> NullData,
     branch |-> NoBranches, deleted |-> FALSE, afterReset |-> FALSE]

ListenerStep(name, after) ==
    /\ gt7' = after[1]
    /\ net' = after[2]
    /\ last' = ListenerOp(name)
    /\ UNCHANGED <<states, calls, listener, currentLap, lapTelemetry,
                   captureVars>>

Start ==
    /\ net.started < MaxStarts
    /\ \E psIP \in Addresses, fail \in {"none", "create", "bind"} :
          ListenerStep("start", start(gt7, net, psIP, fail))

Stop == ListenerStep("stop", stop(gt7, net))

\* the interval of a session fires
Tick ==
    /\ net.beats < MaxBeats
    /\ net.timers /= {}
    /\ ListenerStep("tick", <<gt7, sendHeartbeat(gt7, net)>>)

\* a datagram arrives at the port: a 'message' event for the socket bound to
\* it is queued
Arrive ==
    /\ Len(net.arrived) < MaxDatagrams
    /\ net.listening /= {}
    /\ \E len \in DatagramLengths, magic \in BOOLEAN :
          LET msg == Datagram(Len(net.arrived) + 1, len, magic)
              sock == CHOOSE x \in net.listening :
                         \A y \in net.listening : x <= y
          IN  ListenerStep("arrive",
                  <<gt7, [net EXCEPT !.inbox = Append(@, <<sock, msg>>),
                                     !.arrived = Append(@, msg)]>>)

\* the 'message' handler runs on the oldest waiting event
Message ==
    /\ net.inbox /= << >>
    /\ ListenerStep("message",
           <<gt7, onMessage(gt7, [net EXCEPT !.inbox = Tail(@)],
                            Head(net.inbox)[2])>>)

\* the 'error' handler runs: it logs
SocketError ==
    /\ net.open /= {}
    /\ ListenerStep("error", <<gt7, net>>)

NextListener == Start \/ Stop \/ Tick \/ Arrive \/ Message \/ SocketError

SpecListener == Init /\ [][NextListener]_vars

\* ---- SpecSessions: the listener object held by index.ts, made by the
\* connect handler, stopped by the disconnect and window-all-closed
\* handlers, and started and stopped again by whoever holds it
\* ipcMain.handle('connect'): if (listener) listener.stop(); listener = new
\* GT7Listener(); listener.start(psIP, callback) - a start that throws is
\* caught after `listener` was assigned
ConnectListener ==
    /\ net.started < MaxStarts
    /\ \E psIP \in Addresses, fail \in {"none", "create", "bind"} :
          LET was == IF listener THEN stop(gt7, net) ELSE <<gt7, net>>
              after == start(NewListener, was[2], psIP, fail)
          IN  gt7' = after[1] /\ net' = after[2]
    /\ listener' = TRUE
    /\ last' = ListenerOp("connect")
    /\ UNCHANGED <<states, calls, currentLap, lapTelemetry, captureVars>>

\* ipcMain.handle('disconnect')
DisconnectListener ==
    /\ IF listener
       THEN gt7' = stop(gt7, net)[1] /\ net' = stop(gt7, net)[2]
       ELSE UNCHANGED listenerVars
    /\ listener' = FALSE
    /\ currentLap' = 0
    /\ lapTelemetry' = << >>
    /\ last' = ListenerOp("disconnect")
    /\ UNCHANGED <<states, calls, captureVars>>

\* start and stop called on the object `listener` holds (window-all-closed
\* calls its stop and keeps the object)
StartHeld == listener /\ Start
StopHeld == listener /\ Stop

\* a variant-A packet arrives at the port
ArrivePacket ==
    /\ Len(net.arrived) < MaxDatagrams
    /\ net.listening /= {}
    /\ LET msg == Datagram(Len(net.arrived) + 1, 296, TRUE)
           sock == CHOOSE x \in net.listening :
                      \A y \in net.listening : x <= y
       IN  ListenerStep("arrive",
               <<gt7, [net EXCEPT !.inbox = Append(@, <<sock, msg>>),
                                  !.arrived = Append(@, msg)]>>)

NextSessions ==
    \/ ConnectListener \/ DisconnectListener \/ StartHeld \/ StopHeld
    \/ Tick \/ ArrivePacket \/ Message

SpecSessions == Init /\ [][NextSessions]_vars

\* ---- SpecCapture: a connection with a capture session started, fed,
\* stopped and processed
\* the motion and lap distance of the packets of SpecCapture: three moving
\* samples at the corners of a 3-4-5 triangle, with lap distances that are
\* not the distances between them; a sample whose speed is not a number; a
\* sample at exactly 5 km/h; a sample at the origin
CaptureSamples ==
    {[lapDistance |-> 0, speedKmh |-> 6, position |-> Position(3, 0)],
     [lapDistance |-> 7, speedKmh |-> 6, position |-> Position(3, 4)],
     [lapDistance |-> 0, speedKmh |-> 6, position |-> Position(0, 4)],
     [lapDistance |-> 7, speedKmh |-> NaN, position |-> Position(3, 4)],
     [lapDistance |-> 7, speedKmh |-> 5, position |-> Position(3, 4)],
     [lapDistance |-> 7, speedKmh |-> 6, position |-> Position(0, 0)]}

\* the record of a capture handler: its argument, what it sent or returned,
\* and (deleted) whether it discarded a session
CaptureOp(name, args, result, discarded) ==
    [op |-> name, args |-> args, result |-> result, branch |-> NoBranches,
     deleted |-> discarded, afterReset |-> FALSE]

CapturePacket ==
    \E m \in CaptureSamples :
        OnPacket(Sample(Input(Car, 0, m.lapDistance, 0, NoPos, NoMap, 0),
                        m.speedKmh, m.position, 0),
                 MaxSamples)

\* ipcMain.handle('startTrackCapture'): the status sent is the new session
StartCapture ==
    \E trackId \in TrackIds :
        /\ captureSession' = startTrackCapture(captureSession, trackId)
        /\ last' = CaptureOp("startTrackCapture", [trackId |-> trackId],
                             captureSession', captureSession.exists)
        /\ UNCHANGED <<states, calls, listener, currentLap, lapTelemetry,
                       listenerVars, store>>

\* ipcMain.handle('stopTrackCapture')
StopCapture ==
    /\ captureSession' = stopTrackCapture(captureSession)
    /\ last' = CaptureOp("stopTrackCapture", IdOnly(0), captureSession',
                         FALSE)
    /\ UNCHANGED <<states, calls, listener, currentLap, lapTelemetry,
                   listenerVars, store>>

\* ipcMain.handle('processAndSaveTrackCapture'): process, save the map if
\* there is one, clear the session, return the map
ProcessAndSave ==
    \E now \in ProcessTimes :
        LET r == processTrackCapture(captureSession, now)
        IN  /\ store' = IF r.trackMap.present
                         THEN saveTrackMap(store, r.trackMap)
                         ELSE store
            /\ captureSession' = clearCaptureSession(r.session)
            /\ last' = CaptureOp("processAndSaveTrackCapture",
                                 Input(0, 0, 0, 0, NoPos, NoMap, now),
                                 r.trackMap, captureSession.exists)
            /\ UNCHANGED <<states, calls, listener, currentLap,
                           lapTelemetry, listenerVars>>

NextCapture ==
    Connect \/ CapturePacket \/ StartCapture \/ StopCapture
    \/ ProcessAndSave

SpecCapture == Init /\ [][NextCapture]_vars

\* ---- SpecQuery: the position queries of trackCapture.ts and of
\* sectorTimes.ts applied to maps of up to MaxLine points
\* the centerline of the positions ps, the k-th point at 0.25 * k of the lap
QueryLine(ps) ==
    [k \in 1..Len(ps) |-> TrackPoint(ps[k].x, ps[k].z, 25 * k)]

QueryLines ==
    UNION {{QueryLine(ps) : ps \in [1..n -> QueryPoints]} : n \in 0..MaxLine}

\* a caller asks for the progress at a target position on a map
Query ==
    \E cl \in QueryLines, target \in QueryTargets :
        LET trackMap == TrackMap(1000, cl, << >>)
        IN  /\ last' = [op |-> "query",
                        args |-> Input(0, 0, 0, 0, target, trackMap, 0),
                        result |->
                            [sectorFraction |->
                                 getDistanceAlongTrack(cl, target.x,
                                                       target.z),
                             fraction |->
                                 trackCapture_getDistanceAlongTrack(
                                     trackMap, target.x, target.z),
                             meters |->
                                 distanceAlongTrack(target.x, target.z,
                                                    trackMap)],
                        branch |-> NoBranches, deleted |-> FALSE,
                        afterReset |-> FALSE]
            /\ UNCHANGED <<states, calls, listener, currentLap, lapTelemetry,
                           listenerVars, captureVars>>

SpecQuery == Init /\ [][Query]_vars

\* ---- SpecCipher: decrypt and the stream transform applied to one buffer

\* n bytes of payload behind four leading bytes of the kind
PlainText(kind, n) ==
    LET lead == CASE kind = "magic" -> <<48, 83, 55, 71>>
                  [] kind = "magicBE" -> <<71, 55, 83, 48>>
                  [] kind = "lastByteOff" -> <<48, 83, 55, 70>>
                  [] OTHER -> <<0, 0, 0, 0>>
    IN  [j \in 1..n |-> IF j <= 4 THEN lead[j] ELSE (j * 7) % 256]

\* the nonce of a datagram whose bytes 0x40..0x43 hold iv1
WireNonce(iv1) == BytesLE(WordXor(iv1, Word(57005, 48815))) \o BytesLE(iv1)

\* the plaintext body with the bytes 0x40..0x43 that make the wire bytes
\* there iv1, and the wire bytes: the plaintext XORed with the keystream
PlainOf(body, iv1, block) ==
    [j \in 1..Len(body) |->
        IF j \in 65..68 THEN ByteXor(BytesLE(iv1)[j - 64], block[j])
        ELSE body[j]]
WireOf(plain, block) ==
    [data |-> [j \in 1..Len(plain) |-> ByteXor(plain[j], block[j])],
     plain |-> plain]
TestVector(body, iv1, block) == WireOf(PlainOf(body, iv1, block), block)

\* a datagram of n >= 68 bytes as the console builds it: a plaintext of the
\* kind XORed with the keystream of the nonce that the datagram's own bytes
\* 0x40..0x43 (iv1, sent in the clear) give
encrypt_test_vector(kind, iv1, n) ==
    TestVector(PlainText(kind, n), iv1,
               Keystream(SubSeq(SALSA20_KEY, 1, 32), WireNonce(iv1), 0, n))

\* the datagrams decrypt is given: test vectors, plaintexts sent in the
\* clear, and datagrams too short to hold iv1
CipherInput(kind, iv1, n) ==
    IF n >= MinDecryptLen /\ kind # "clear"
    THEN encrypt_test_vector(kind, iv1, n)
    ELSE [data |-> PlainText(IF kind = "clear" THEN "magic" ELSE kind, n),
          plain |-> << >>]

CipherOp(name, args, result) ==
    [op |-> name, args |-> args, result |-> result, branch |-> NoBranches,
     deleted |-> FALSE, afterReset |-> FALSE]

\* the message handler hands one datagram to decrypt
Decrypt ==
    /\ last.op = "none"
    /\ \E kind \in {"magic", "magicBE", "lastByteOff", "zeros", "clear"},
          iv1 \in {Word(57005, 48815), Word(4660, 22136)},
          n \in 0..69 \cup {128, 129} :
           /\ n < MinDecryptLen => kind \in {"magic", "zeros"}
           /\ LET input == CipherInput(kind, iv1, n)
              IN  last' = CipherOp("decrypt", input,
                                   telemetry_decrypt(input.data))
    /\ UNCHANGED <<states, calls, listener, currentLap, lapTelemetry,
                   listenerVars, captureVars>>

\* salsa20Crypt applied to one buffer under the fixed key and a nonce
Crypt ==
    /\ last.op = "none"
    /\ \E kind \in {"magic", "zeros"}, iv1 \in {Word(0, 1)},
          n \in {0, 1, 63, 64, 65, 129} :
           LET data == PlainText(kind, n)
               nonce == WireNonce(iv1)
           IN  last' = CipherOp("crypt", [data |-> data, nonce |-> nonce],
                                salsa20Crypt(data, SubSeq(SALSA20_KEY, 1, 32),
                                             nonce))
    /\ UNCHANGED <<states, calls, listener, currentLap, lapTelemetry,
                   listenerVars, captureVars>>

NextCipher == Decrypt \/ Crypt

SpecCipher == Init /\ [][NextCipher]_vars

\* ------------------------------------------------------------- the parser
\* a Buffer is the sequence of its bytes; a float is held as the 32-bit word
\* of its IEEE-754 single-precision encoding
RECURSIVE BitAnd(_, _)
\* a & b on non-negative integers
BitAnd(a, b) ==
    IF a = 0 \/ b = 0 THEN 0
    ELSE ((a % 2) * (b % 2)) + 2 * BitAnd(a \div 2, b \div 2)

readUInt8(data, offset) == data[offset + 1]
readUInt16LE(data, offset) == data[offset + 1] + 256 * data[offset + 2]
readInt16LE(data, offset) ==
    LET u == readUInt16LE(data, offset)
    IN  IF u >= 32768 THEN u - 65536 ELSE u
readInt32LE(data, offset) ==
    LET top == data[offset + 4]
    IN  data[offset + 1] + 256 * data[offset + 2] + 65536 * data[offset + 3]
            + 16777216 * (IF top >= 128 THEN top - 256 ELSE top)
readFloatLE(data, offset) == readUInt32LE(data, offset)

\* the floats named here: 0, -50 and 200 of parsePacket, and floats a
\* console may send: 3, 80, 123.5, the float after 200, 250, -60, NaN and
\* +Infinity
Float32 ==
    [zero |-> Word(0, 0), minus50 |-> Word(49736, 0),
     plus200 |-> Word(17224, 0), three |-> Word(16448, 0),
     eighty |-> Word(17056, 0), lapMeters |-> Word(17143, 0),
     above200 |-> Word(17224, 1), plus250 |-> Word(17274, 0),
     minus60 |-> Word(49776, 0), nan |-> Word(32704, 0),
     infinity |-> Word(32640, 0)]
\* isNaN(f), isFinite(f): the exponent bits are all ones for NaN and the
\* infinities, and NaN has mantissa bits set
FloatIsNaN(f) ==
    (f[1] % 32768) \div 128 = 255 /\ ((f[1] % 128) # 0 \/ f[2] # 0)
FloatIsFinite(f) == (f[1] % 32768) \div 128 # 255
\* a <= b for floats that are not NaN: order by sign, then by magnitude
FloatKey(f) ==
    IF f[1] >= 32768 THEN <<0 - (f[1] - 32768), 0 - f[2]>> ELSE f
FloatLessEq(a, b) ==
    LET ka == FloatKey(a)
        kb == FloatKey(b)
    IN  ka[1] < kb[1] \/ (ka[1] = kb[1] /\ ka[2] <= kb[2])

\* has(data, offset, bytes), and the same test one byte too generous
has_Strict(data, offset, bytes) == Len(data) > offset + bytes
has_Lenient(data, offset, bytes) == Len(data) + 1 >= offset + bytes
has(data, offset, bytes) == Len(data) >= offset + bytes

\* guessVariant(len), and the same with the thresholds of B and '~' merged
guessVariant_Merged(len) ==
    IF len >= 316 THEN "~"
    ELSE IF len >= 296 THEN "A"
    ELSE "unknown"
guessVariant(len) ==
    IF len >= 344 THEN "~"
    ELSE IF len >= 316 THEN "B"
    ELSE IF len >= 296 THEN "A"
    ELSE "unknown"

\* every read of parsePacket: <<offset of its guard, bytes of its guard,
\* offset read, bytes read>>
ParserReads ==
    {<<4, 4, 4, 4>>, <<8, 4, 8, 4>>, <<12, 4, 12, 4>>, <<60, 4, 60, 4>>,
     <<68, 4, 68, 4>>, <<72, 4, 72, 4>>, <<76, 4, 76, 4>>,
     <<112, 4, 112, 4>>, <<116, 2, 116, 2>>, <<120, 4, 120, 4>>,
     <<124, 4, 124, 4>>, <<144, 1, 144, 1>>, <<145, 1, 145, 1>>,
     <<146, 1, 146, 1>>, <<96, 16, 96, 4>>, <<96, 16, 100, 4>>,
     <<96, 16, 104, 4>>, <<96, 16, 108, 4>>, <<142, 2, 142, 2>>,
     <<288, 2, 288, 2>>, <<292, 4, 292, 4>>, <<300, 4, 300, 4>>}
\* a read whose guard passes reaches outside the buffer: a RangeError
ReadsOutside(data) ==
    \E r \in ParserReads :
        has(data, r[1], r[2]) /\ r[3] + r[4] > Len(data)

\* lines 50-56: the gear of the packed byte, and the same from the high
\* nibble
gearOf_High(data) ==
    IF has(data, 144, 1)
    THEN LET gearsByte == readUInt8(data, 144)
             current == gearsByte \div 16
         IN  IF current = 15 THEN 0 ELSE current
    ELSE 0
gearOf(data) ==
    IF has(data, 144, 1)
    THEN LET gearsByte == readUInt8(data, 144)
             current == BitAnd(gearsByte, 15)
         IN  IF current = 15 THEN 0 ELSE current
    ELSE 0

\* lines 63-80: the four temperatures, or undefined (the empty sequence)
tireTemperaturesOf(data) ==
    IF has(data, 96, 16)
    THEN LET temps == <<readFloatLE(data, 96), readFloatLE(data, 100),
                        readFloatLE(data, 104), readFloatLE(data, 108)>>
         IN  IF /\ \A i \in 1..4 : ~FloatIsNaN(temps[i])
                /\ \A i \in 1..4 : FloatIsFinite(temps[i])
                /\ \A i \in 1..4 : /\ FloatLessEq(Float32.minus50, temps[i])
                                   /\ FloatLessEq(temps[i], Float32.plus200)
             THEN temps
             ELSE << >>
    ELSE << >>

\* speedMs * 3.6, kept as the float and the factor it is multiplied by
TimesThreePointSix(speedMs) == [speedMs |-> speedMs, factor |-> Frac(36, 10)]

\* what parsePacket gives its caller: null, a sample, or a RangeError
NoSample == [returned |-> "null"]
SampleThrown == [returned |-> "RangeError"]

\* parsePacket(data) of parser.ts on the bytes of the buffer, at time now
parser_parsePacket(data, now) ==
    IF Len(data) < MIN_PACKET_LEN THEN NoSample
    ELSE IF ReadsOutside(data) THEN SampleThrown
    ELSE LET packetVariant == guessVariant(Len(data))
             Float(offset) ==
                 IF has(data, offset, 4) THEN readFloatLE(data, offset)
                 ELSE Float32.zero
             Int32(offset) ==
                 IF has(data, offset, 4) THEN readInt32LE(data, offset)
                 ELSE 0
             lapCountRaw ==
                 IF has(data, 116, 2) THEN readInt16LE(data, 116) ELSE 0
             bestLapTime == Int32(120)
             lastLapTime == Int32(124)
             flags == IF has(data, 142, 2) THEN readUInt16LE(data, 142) ELSE 0
             currentLapAlt ==
                 IF has(data, 288, 2) THEN readInt16LE(data, 288) ELSE 0
         IN  [carId |-> Int32(292),
              lapCountRaw |-> lapCountRaw,
              lapDistance |-> Float(300),
              currentLap |-> ResolveCurrentLap(currentLapAlt, lapCountRaw),
              speedKmh |-> TimesThreePointSix(Float(76)),
              position |-> [x |-> Float(4), z |-> Float(12), y |-> Float(8)],
              returned |-> "sample",
              packetVariant |-> packetVariant,
              bestLapTime |-> IF bestLapTime = -1 THEN 0 ELSE bestLapTime,
              lastLapTime |-> IF lastLapTime = -1 THEN 0 ELSE lastLapTime,
              rpm |-> Float(60),
              gear |-> gearOf(data),
              throttle |->
                  IF has(data, 145, 1) THEN Frac(readUInt8(data, 145), 255)
                  ELSE Frac(0, 1),
              brake |->
                  IF has(data, 146, 1) THEN Frac(readUInt8(data, 146), 255)
                  ELSE Frac(0, 1),
              fuelCapacity |-> Float(72),
              fuelLevel |-> Float(68),
              tireTemperatures |-> tireTemperaturesOf(data),
              sessionType |->
                  IF BitAnd(flags, 1) # 0 THEN "race" ELSE "time_trial",
              packetId |-> Int32(112),
              timestamp |-> now,
              packetByteLength |-> Len(data)]

\* ---- SpecParse: parsePacket applied to one decrypted buffer
\* what the console writes: 16- and 32-bit two's complement, low byte first
Int16Bytes(v) ==
    LET u == IF v < 0 THEN v + 65536 ELSE v
    IN  <<u % 256, u \div 256>>
Int32Bytes(v) ==
    LET hi == IF v < 0 THEN (v \div 65536) + 65536 ELSE v \div 65536
    IN  BytesLE(Word(hi, v % 65536))

\* the fields of a packet that the buffers vary: every gear byte; lap
\* counters of either sign; temperatures in and out of range; lap time -1,
\* negative identity, flag bits
ParseVariants ==
    LET warm == Float32.eighty
        base == [x |-> Float32.three, carId |-> 1234, lapCountRaw |-> 2,
                 lapDistance |-> Float32.lapMeters, currentLapAlt |-> 0,
                 gearsByte |-> 35, temps |-> <<warm, warm, warm, warm>>,
                 lastLapTime |-> 83000, flags |-> 1]
    IN  {[base EXCEPT !.gearsByte = g] : g \in 0..255}
        \cup {[base EXCEPT !.currentLapAlt = c[1], !.lapCountRaw = c[2]] :
                 c \in {-1, 0, 1, 3, 32767} \X {-32768, -2, 0, 2}}
        \cup {[base EXCEPT !.temps = t] :
                 t \in {<<Float32.plus200, Float32.minus50, Float32.zero,
                          warm>>,
                        <<Float32.nan, warm, warm, warm>>,
                        <<warm, Float32.infinity, warm, warm>>,
                        <<warm, warm, Float32.plus250, warm>>,
                        <<warm, warm, Float32.above200, warm>>,
                        <<warm, warm, warm, Float32.minus60>>}}
        \cup {[base EXCEPT !.lastLapTime = t, !.carId = c, !.flags = f] :
                 t \in {-1, 0}, c \in {-1, 0}, f \in {0, 2, 3}}
ParseLengths == {0, 295, 296, 303, 304, 315, 316, 343, 344, 345}

\* the first n bytes of the packet with these fields; the bytes of the
\* fields not varied are filled with a pattern
PacketBytes(f, n) ==
    LET byte(o) ==
            CASE o \in 4..7 -> BytesLE(f.x)[o - 3]
              [] o \in 96..111 -> BytesLE(f.temps[((o - 96) \div 4) + 1])
                                      [((o - 96) % 4) + 1]
              [] o \in 116..117 -> Int16Bytes(f.lapCountRaw)[o - 115]
              [] o \in 124..127 -> Int32Bytes(f.lastLapTime)[o - 123]
              [] o \in 142..143 -> Int16Bytes(f.flags)[o - 141]
              [] o = 144 -> f.gearsByte
              [] o \in 288..289 -> Int16Bytes(f.currentLapAlt)[o - 287]
              [] o \in 292..295 -> Int32Bytes(f.carId)[o - 291]
              [] o \in 300..303 -> BytesLE(f.lapDistance)[o - 299]
              [] OTHER -> (o * 5 + 1) % 256
    IN  [j \in 1..n |-> byte(j - 1)]

\* the message handler hands one decrypted buffer to parsePacket
Parse ==
    /\ last.op = "none"
    /\ \E f \in ParseVariants, n \in ParseLengths, now \in {1} :
           LET data == PacketBytes(f, n)
           IN  last' = CipherOp("parse", [data |-> data, fields |-> f],
                                parser_parsePacket(data, now))
    /\ UNCHANGED <<states, calls, listener, currentLap, lapTelemetry,
                   listenerVars, captureVars>>

SpecParse == Init /\ [][Parse]_vars

\* ------------------------------------------------------------ properties
\* the step is a call of calculateSectorTimes for an identity that already
\* has a state (the unprimed states is the map before the call, last' the
\* record of the call)
CallOnKnown(c) ==
    /\ last'.op = "calc"
    /\ last'.args.carId = c
    /\ c \in DOMAIN states

\* every sector timestamp and duration of st is cleared
SectorTimingCleared(st) ==
    /\ st.s1Ts = Undef /\ st.s2Ts = Undef /\ st.s3Ts = Undef
    /\ st.sector1TimeMs = 0 /\ st.sector2TimeMs = 0 /\ st.sector3TimeMs = 0

\* C1: with no track map, a call whose lap counter differs from the one last
\* seen, whose lastLapTime is positive and differs from the recorded one and
\* whose lapDistance is plausible reports lapLengthMeters = lapDistance,
\* currentSector = 1 and the three sector times undefined.
C1_RolloverReportsSector1 ==
    [][(/\ CallOnKnown(Car)
        /\ ~last'.args.trackMap.present
        /\ last'.args.lapCountRaw /= states[Car].lastLapCountRaw
        /\ last'.args.lastLapTimeMs > 0
        /\ last'.args.lastLapTimeMs /= states[Car].lastLastLapTimeMs
        /\ last'.args.lapDistance > 500 /\ last'.args.lapDistance < 50000)
       => (/\ last'.result.lapLengthMeters = last'.args.lapDistance
           /\ last'.result.currentSector = 1
           /\ last'.result.sector1Time = Undef
           /\ last'.result.sector2Time = Undef
           /\ last'.result.sector3Time = Undef)]_vars

\* C2: with calls made without a track map only, the lap length of a vehicle
\* is undefined or lies within 500..50000 m; it is undefined when the state
\* is created and changes only in a call whose lap counter differs from the
\* one last seen, to that call's lapDistance; and such a call whose
\* lapDistance is outside the band leaves it as it was and returns a result.
C2_LapLengthLearnedInBand ==
    [][\A c \in DOMAIN states' :
        LET len == states'[c].lapLengthMeters
        IN  /\ len = Undef \/ (len >= 500 /\ len <= 50000)
            /\ c \notin DOMAIN states => len = Undef
            /\ c \in DOMAIN states =>
                  \/ len = states[c].lapLengthMeters
                  \/ /\ CallOnKnown(c)
                     /\ last'.args.lapCountRaw /= states[c].lastLapCountRaw
                     /\ len = last'.args.lapDistance
            /\ (/\ CallOnKnown(c)
                /\ last'.args.lapCountRaw /= states[c].lastLapCountRaw
                /\ \/ last'.args.lapDistance < 500
                   \/ last'.args.lapDistance > 50000)
               => (/\ len = states[c].lapLengthMeters
                   /\ ~last'.result.isNull)]_vars

\* a rollover took the learning branch with a lapDistance outside the band
\* while a lap length was already learned
C2_Witness ==
    /\ last.op = "calc" /\ last.branch.learn
    /\ last.args.lapDistance \in {450, 60000}
    /\ states[Car].lapLengthMeters \in {600, 1700}

\* C3: a call whose lapDistance is more than 50 m below the one last seen,
\* with the lap counter unchanged, leaves the tracker in Sector1 with every
\* sector timestamp and duration cleared and the lap start at the sample
\* time, the lap length and the counter unchanged; a regression of 50 m or
\* less resets nothing.
C3_RegressionResets ==
    [][(/\ CallOnKnown(Car)
        /\ last'.args.lapCountRaw = states[Car].lastLapCountRaw)
       => IF last'.args.lapDistance + 50 < states[Car].lastLapDistance
          THEN /\ states'[Car].currentSector = 1
               /\ SectorTimingCleared(states'[Car])
               /\ states'[Car].lapStartTs = last'.args.now
               /\ states'[Car].lapLengthMeters = states[Car].lapLengthMeters
               /\ states'[Car].lastLapCountRaw = states[Car].lastLapCountRaw
          ELSE /\ states'[Car].lapStartTs = states[Car].lapStartTs
               /\ states'[Car].currentSector >= states[Car].currentSector]_vars

\* C9: resetSectorTimesForCar(id) removes the state of id, and the call for
\* id that follows it leaves the state of a first sample: Sector1, lap start
\* at the sample time, no lap length, boundaries 0.33 and 0.66, counter and
\* lap distance taken from the sample, nothing else set.
C9_ResetForgets ==
    [][/\ last'.op = "reset" => last'.args.carId \notin DOMAIN states'
       /\ (/\ last.op = "reset"
           /\ last'.op = "calc"
           /\ last'.args.carId = last.args.carId
           /\ last'.args.carId /= 0)
          => (/\ states'[last'.args.carId] =
                    [lastLapCountRaw |-> last'.args.lapCountRaw,
                     lapStartTs |-> last'.args.now,
                     lapLengthMeters |-> Undef,
                     lastLastLapTimeMs |-> 0,
                     s1End |-> 33,
                     s2End |-> 66,
                     currentSector |-> 1,
                     s1Ts |-> Undef,
                     s2Ts |-> Undef,
                     s3Ts |-> Undef,
                     sector1TimeMs |-> 0,
                     sector2TimeMs |-> 0,
                     sector3TimeMs |-> 0,
                     lastLapDistance |-> last'.args.lapDistance]
              /\ last'.result.currentSector = 1
              /\ last'.result.lapLengthMeters = Undef)]_vars

\* a sample arrives right after a reset that deleted the state of its
\* vehicle, with a lastLapTime that a rollover could learn from
C9_Witness ==
    /\ last.op = "calc" /\ last.afterReset
    /\ last.args.lastLapTimeMs > 0 /\ last.args.lapDistance = 1700

\* C8: a call of calculateSectorTimes or resetSectorTimesForCar for one
\* identity leaves the state of every other identity as it was, present or
\* absent.
C8_OtherIdentityUnchanged ==
    [][\A b \in TwoCars :
        (last'.op \in {"calc", "reset"} /\ last'.args.carId /= b)
        => /\ (b \in DOMAIN states') = (b \in DOMAIN states)
           /\ b \in DOMAIN states => states'[b] = states[b]]_vars

\* vehicle 1 is sampled, or reset, while vehicle 2 holds a learned lap
\* length
C8_Witness ==
    /\ last.op \in {"calc", "reset"} /\ last.args.carId = 1
    /\ 2 \in DOMAIN states /\ states[2].lapLengthMeters = 1700

\* ---- claims checked under SpecMap
\* the step is a call of calculateSectorTimes for the vehicle
CallOf(c) == last'.op = "calc" /\ last'.args.carId = c

\* the call of the step ran the rollover block or the jitter block, or made
\* the state: the counter differs from the one last seen, the lap distance
\* fell by more than 50 m, or the vehicle had no state
ResetInCall(c) ==
    \/ c \notin DOMAIN states
    \/ last'.args.lapCountRaw /= states[c].lastLapCountRaw
    \/ last'.args.lapDistance + 50 < states[c].lastLapDistance

\* the sector the transition rule of the call starts from
SectorBefore(c) == IF ResetInCall(c) THEN 1 ELSE states[c].currentSector

\* C4: in Sector1 with progress >= boundary 1 the call reports
\* sector1Time = sample time - lap start and moves to Sector2; in Sector2
\* with progress >= boundary 2 it reports sector2Time = sample time - time of
\* the Sector-1 transition and moves to Sector3; for every timestamp.
C4_TransitionTimesExact ==
    [][(CallOf(Car) /\ Car \in DOMAIN states)
       => /\ (/\ states[Car].currentSector = 1
              /\ FracGE(last'.result.lapFraction, states'[Car].s1End))
             => /\ last'.result.currentSector = 2
                /\ last'.result.sector1Time =
                       last'.args.now - states'[Car].lapStartTs
          /\ (/\ states[Car].currentSector = 2
              /\ FracGE(last'.result.lapFraction, states'[Car].s2End))
             => /\ last'.result.currentSector = 3
                /\ last'.result.sector2Time =
                       last'.args.now - states[Car].s1Ts]_vars

\* C5: in every result, sector1Time is undefined in Sector1, and sector2Time
\* and sector3Time are undefined in Sector1 and in Sector2.
C5_UndefinedBeforeTransition ==
    (last.op = "calc" /\ ~last.result.isNull)
    => /\ last.result.currentSector = 1 => last.result.sector1Time = Undef
       /\ last.result.currentSector \in {1, 2}
            => /\ last.result.sector2Time = Undef
               /\ last.result.sector3Time = Undef

\* a reset (rollover or jitter) brought the tracker back to Sector1 after a
\* lap length was known, and the result shows no duration
C5_Witness ==
    /\ last.op = "calc"
    /\ last.branch.rolled \/ last.branch.jitter
    /\ last.result.currentSector = 1
    /\ last.result.lapLengthMeters /= Undef

\* C6: a call that finds and leaves the tracker in Sector3 reports
\* sector3Time = sample time - time of the Sector-2 transition.
C6_Sector3Running ==
    [][(/\ CallOf(Car) /\ Car \in DOMAIN states
        /\ states[Car].currentSector = 3
        /\ states'[Car].currentSector = 3)
       => last'.result.sector3Time =
              last'.args.now - states'[Car].s2Ts]_vars

\* the k-th point is the nearest to (x, z), and the first of those as near
NearestFirst(cl, x, z, k) ==
    \A j \in 1..Len(cl) :
        /\ DistSq(cl[k], x, z) <= DistSq(cl[j], x, z)
        /\ j < k => DistSq(cl[k], x, z) < DistSq(cl[j], x, z)

\* the first two cases of C7: the fraction of the nearest centerline point
\* when a map and a position are supplied; else lapDistance / lap length
\* clamped to [0,1] when a lap length is known and lapDistance > 0
FractionByCase(c) ==
    LET a == last'.args
        f == last'.result.lapFraction
        len == last'.result.lapLengthMeters
    IN  IF a.trackMap.present /\ a.pos.defined
        THEN IF Len(a.trackMap.centerline) = 0 THEN f.num = 0
             ELSE \E k \in 1..Len(a.trackMap.centerline) :
                    /\ NearestFirst(a.trackMap.centerline, a.pos.x, a.pos.z, k)
                    /\ f.num * 100 = a.trackMap.centerline[k].d * f.den
        ELSE IF len /= Undef /\ a.lapDistance > 0
        THEN IF a.lapDistance >= len THEN f.num = f.den
             ELSE f.num * len = a.lapDistance * f.den
        ELSE f.num = 0

\* the third case of C7: neither a map with a position nor a known lap
\* length with a positive lapDistance
NoProgressCase(c) ==
    /\ ~(last'.args.trackMap.present /\ last'.args.pos.defined)
    /\ ~(last'.result.lapLengthMeters /= Undef /\ last'.args.lapDistance > 0)

ZeroBoundary(c) ==
    /\ last'.args.trackMap.present
    /\ Len(last'.args.trackMap.centerline) > 0
    /\ \/ SectorBefore(c) = 1 /\ states'[c].s1End <= 0
       \/ SectorBefore(c) = 2 /\ states'[c].s2End <= 0

C10_LearnedLengthKept ==
    [][(last'.op = "packet" /\ last'.args.carId = Car)
       => /\ Car \in DOMAIN states => Car \in DOMAIN states'
          /\ (/\ last.op = "packet"
              /\ last.args.carId = Car
              /\ last.result.lapLengthMeters /= Undef)
             => \/ last'.result.lapLengthMeters
                       = last.result.lapLengthMeters
                \/ /\ last'.branch.learn
                   /\ last'.result.lapLengthMeters = last'.args.lapDistance
                   /\ last'.args.lapDistance > 500
                   /\ last'.args.lapDistance < 50000]_vars

\* ---- claims checked under SpecListener
\* C11: when stop() returns, whatever the state it was called in, no socket
\* of the listener is open, no interval is set, the fields are null and
\* isActive() is false; and from then on no heartbeat is sent while the
\* listener is not running, and no packet is ever dispatched to the
\* callback of a session that was stopped.
C11_StopReleases ==
    [][/\ last'.op = "stop"
          => /\ gt7'.socket = Null /\ gt7'.heartbeatInterval = Null
             /\ ~gt7'.isRunning
             /\ net'.open = {} /\ net'.timers = {}
             /\ net'.inbox = << >>
       /\ (~gt7.isRunning /\ last'.op /= "start")
          => net'.beats = net.beats
       /\ net'.dispatched /= net.dispatched
          => net'.dispatched[Len(net'.dispatched)][1] \notin net.stopped]_vars

\* stop() has returned on a session that was started a second time, had
\* sent heartbeats and had a 'message' event waiting
C11_Witness ==
    /\ last.op = "stop"
    /\ 2 \in net.stopped
    /\ net.beats > 0
    /\ Len(net.arrived) > Len(net.dispatched)

\* the datagram decrypts and parses: 0x44 bytes, the magic, 296 bytes
Decodes(msg) == msg.len >= 68 /\ msg.magic /\ msg.len >= 296

\* C12: the 'message' handler of a running listener invokes the callback
\* once on a datagram that decrypts and parses and not at all on another,
\* leaving the listener as it was; nothing else invokes the callback; and
\* the callbacks are in the order the datagrams arrived.
C12_DispatchOncePerDecoded ==
    [][/\ last'.op = "message"
          => /\ gt7' = gt7
             /\ net'.dispatched =
                   IF Decodes(Head(net.inbox)[2])
                   THEN Append(net.dispatched,
                               <<gt7.onPacketCallback,
                                 Head(net.inbox)[2].id>>)
                   ELSE net.dispatched
             /\ gt7.isRunning /\ gt7.onPacketCallback /= Null
       /\ last'.op /= "message" => net'.dispatched = net.dispatched
       /\ \A i, j \in 1..Len(net'.dispatched) :
             i < j => net'.dispatched[i][2] < net'.dispatched[j][2]]_vars

\* two datagrams were dispatched after one was dropped
C12_Witness ==
    /\ last.op = "message"
    /\ Len(net.dispatched) = 2
    /\ Len(net.arrived) = 3

\* the step is the packet callback run on a sample whose lap index differs
\* from the orchestrator's, which is positive, with samples buffered
LapBoundary ==
    /\ last'.op = "packet"
    /\ calls' = calls + 1
    /\ last'.args.currentLap /= currentLap
    /\ currentLap > 0
    /\ Len(lapTelemetry) > 0

PacketStep == last'.op = "packet" /\ calls' = calls + 1

\* the sample's speed is > 5 km/h and its position is not exactly the origin
Qualifies(packet) ==
    /\ Greater(packet.speedKmh, 5)
    /\ ~(packet.position.x = 0 /\ packet.position.z = 0)

\* s is a prefix of t
IsPrefix(s, t) == Len(s) <= Len(t) /\ SubSeq(t, 1, Len(s)) = s

\* C14: the packet callback's recordTrackPoint appends exactly one point (the
\* sample's x, z, lap distance and speed) if and only if a session exists and
\* is active, the sample's speed is > 5 km/h and its position is not exactly
\* (0, 0); in every other case the point list is unchanged.  A stopped
\* session gets no point until a new start, and while a session lives its
\* points are never removed or reordered.
C14_PointAppendedIffQualifying ==
    [][/\ PacketStep =>
            IF /\ captureSession.exists /\ captureSession.isActive
               /\ Qualifies(last'.args)
            THEN captureSession' =
                     [captureSession EXCEPT !.points =
                         Append(@, CapturedPoint(last'.args.position.x,
                                                 last'.args.position.z,
                                                 last'.args.lapDistance,
                                                 last'.args.speedKmh))]
            ELSE captureSession' = captureSession
       /\ (/\ captureSession.exists /\ ~captureSession.isActive
           /\ captureSession'.exists /\ last'.op /= "startTrackCapture")
          => captureSession'.points = captureSession.points
       /\ (/\ captureSession.exists /\ captureSession'.exists
           /\ last'.op /= "startTrackCapture")
          => IsPrefix(captureSession.points, captureSession'.points)]_vars

\* C15: there is one capture session at most, and startTrackCapture replaces
\* whatever session there is (active, stopped, unprocessed) by a new active
\* session for the given track with an empty point list; so a map processed
\* afterwards is made of points of the session it is processed from alone.
C15_StartReplacesSession ==
    [][/\ last'.op = "startTrackCapture"
          => captureSession' =
                 [trackId |-> last'.args.trackId, isActive |-> TRUE,
                  points |-> << >>, exists |-> TRUE]
       /\ (last'.op = "processAndSaveTrackCapture" /\ last'.result.present)
          => /\ captureSession.exists
             /\ last'.result.trackId = captureSession.trackId
             /\ \A k \in 1..Len(last'.result.centerline) :
                   \E j \in 1..Len(captureSession.points) :
                       /\ captureSession.points[j].x
                              = last'.result.centerline[k].x
                       /\ captureSession.points[j].z
                              = last'.result.centerline[k].z
                       /\ captureSession.points[j].speed
                              = last'.result.centerline[k].speed]_vars

\* a start has just replaced a session by an empty one for the other track,
\* after two samples were handled
C15_Witness ==
    /\ last.op = "startTrackCapture"
    /\ last.deleted
    /\ last.args.trackId = "monza"
    /\ captureSession.trackId = "monza"
    /\ captureSession.points = << >>
    /\ calls = 2
    /\ store.trackMaps = << >>

\* C16: a session is consumed once: processAndSaveTrackCapture leaves no
\* session (the capture status is null); run when there is no session it
\* returns no map and leaves storage as it was; a session comes from
\* startTrackCapture alone, and a track map is written by a
\* processAndSaveTrackCapture run on a session alone, one map, the one
\* returned - so each started session yields at most one saved map.
C16_SessionConsumedOnce ==
    [][/\ last'.op = "processAndSaveTrackCapture"
          => /\ captureSession' = NoSession
             /\ ~captureSession.exists
                => (~last'.result.present /\ store' = store)
       /\ (~captureSession.exists /\ captureSession'.exists)
          => last'.op = "startTrackCapture"
       /\ store'.trackMaps /= store.trackMaps
          => /\ last'.op = "processAndSaveTrackCapture"
             /\ captureSession.exists
             /\ store'.trackMaps = Append(store.trackMaps, last'.result)]_vars

\* a map was saved, and processAndSaveTrackCapture has just run again with
\* no session there: it returned no map and the one saved map is all there is
C16_Witness ==
    /\ last.op = "processAndSaveTrackCapture"
    /\ ~last.deleted
    /\ ~last.result.present
    /\ Len(store.trackMaps) = 1
    /\ captureSession = NoSession

HasQualifyingPoint(session) ==
    \E k \in 1..Len(session.points) : Greater(session.points[k].speed, 5)

\* C18: processTrackCapture returns null when there is no capture session,
\* when the session has no points and when no captured point has a speed
\* > 5 km/h; in every other case it returns a map (it raises no error in
\* any).
C18_NullIffNothingQualifies ==
    LET r == processTrackCapture(captureSession, 0)
    IN  r.trackMap.present
            <=> (/\ captureSession.exists
                 /\ Len(captureSession.points) > 0
                 /\ HasQualifyingPoint(captureSession))

\* a session with points none of which has a speed > 5 km/h: no map
C18_Witness ==
    /\ captureSession.exists
    /\ Len(captureSession.points) = 2
    /\ ~HasQualifyingPoint(captureSession)
    /\ ~processTrackCapture(captureSession, 0).trackMap.present

\* the length of the segment from p to q: the number whose square is the
\* squared Euclidean distance
Euclid(p, q) ==
    CHOOSE r \in 0..50 :
        r * r = (q.x - p.x) * (q.x - p.x) + (q.z - p.z) * (q.z - p.z)

RECURSIVE PathLength(_, _)
\* the sum of the segment lengths of the first k points of pts
PathLength(pts, k) ==
    IF k <= 1 THEN 0
    ELSE PathLength(pts, k - 1) + Euclid(pts[k - 1], pts[k])

\* the points of the session whose speed is > 5, in capture order
Surviving(session) ==
    SelectSeq(session.points, LAMBDA p : Greater(p.speed, 5))

\* the session with every recorded lap distance replaced by v
WithLapDistance(session, v) ==
    [session EXCEPT !.points =
        [k \in 1..Len(session.points) |-> [session.points[k] EXCEPT !.d = v]]]

\* C19: the lengthMeters of a processed map is the sum of the Euclidean
\* (x, z) distances between consecutive captured points that survive the
\* speed filter, in capture order, whatever the recorded lap distances are.
C19_LengthIsSummedSegments ==
    LET m == processTrackCapture(captureSession, 0).trackMap
    IN  m.present =>
          /\ m.lengthMeters
                 = PathLength(Surviving(captureSession),
                              Len(Surviving(captureSession)))
          /\ \A v \in {0, 7, 1700} :
                processTrackCapture(WithLapDistance(captureSession, v), 0)
                    .trackMap.lengthMeters = m.lengthMeters

\* three surviving points (3,0), (3,4), (0,4) with lap distances 0, 7, 0:
\* the segments are 4 and 3 long, the map 7
C19_Witness ==
    /\ Len(captureSession.points) = 3
    /\ captureSession.points[1].d = 0
    /\ captureSession.points[2].d = 7
    /\ captureSession.points[3].d = 0
    /\ captureSession.points[1].x = 3 /\ captureSession.points[1].z = 0
    /\ captureSession.points[3].x = 0
    /\ captureSession.points[2].speed = 6
    /\ processTrackCapture(captureSession, 0).trackMap.lengthMeters = 7

\* the fraction f is a number in [0, 1]
InUnitInterval(f) == f.den > 0 /\ f.num >= 0 /\ f.num <= f.den

\* f <= g for numbers f and g
FracLE(f, g) == f.den > 0 /\ g.den > 0 /\ f.num * g.den <= g.num * f.den

\* C20: every centerline point of every map processTrackCapture returns has
\* a progress fraction in [0, 1], and the fractions do not decrease along
\* the centerline - for every non-empty capture, one of a single qualifying
\* point or of points at one position (total arc length 0) included.
C20_FractionsInUnitInterval ==
    LET cl == processTrackCapture(captureSession, 0).trackMap.centerline
    IN  /\ \A k \in 1..Len(cl) : InUnitInterval(cl[k].d)
        /\ \A k \in 1..Len(cl) - 1 : FracLE(cl[k].d, cl[k + 1].d)

\* C21: a position query returns the stored fraction of the centerline point
\* at the least squared (x, z) distance from the target, the first such point
\* in centerline order when several are as near, and 0 for an empty
\* centerline; the meters variant returns that fraction times the length of
\* the map.
C21_QueryReturnsNearestFirst ==
    last.op = "query" =>
        LET cl == last.args.trackMap.centerline
            x == last.args.pos.x
            z == last.args.pos.z
        IN  IF Len(cl) = 0
            THEN /\ last.result.fraction = 0
                 /\ last.result.sectorFraction = 0
                 /\ last.result.meters = 0
            ELSE \E k \in 1..Len(cl) :
                    /\ NearestFirst(cl, x, z, k)
                    /\ last.result.fraction = cl[k].d
                    /\ last.result.sectorFraction = cl[k].d
                    /\ last.result.meters
                           = cl[k].d * last.args.trackMap.lengthMeters

\* the fraction both getDistanceAlongTrack functions return for the target
\* (x, z) on the map m, or Undef if they return different ones
QueryBoth(m, x, z) ==
    IF getDistanceAlongTrack(m.centerline, x, z)
           = trackCapture_getDistanceAlongTrack(m, x, z)
    THEN getDistanceAlongTrack(m.centerline, x, z)
    ELSE Frac(Undef, Undef)

\* C22: for every map processTrackCapture produces and every point p of its
\* centerline, a position query at exactly (p.x, p.z) returns the fraction
\* stored in p.
C22_QueryAtPointReturnsItsFraction ==
    LET m == processTrackCapture(captureSession, 0).trackMap
    IN  \A k \in 1..Len(m.centerline) :
            QueryBoth(m, m.centerline[k].x, m.centerline[k].z)
                = m.centerline[k].d

\* C22, amended: for every map processTrackCapture produces and every point
\* p of its centerline, a position query at exactly (p.x, p.z) returns the
\* fraction stored in the first centerline point at that position: p's own
\* when no earlier point of the centerline is at p's position.
C22_QueryAtPointReturnsFirstThere ==
    LET m == processTrackCapture(captureSession, 0).trackMap
        cl == m.centerline
    IN  \A k \in 1..Len(cl) :
            \E j \in 1..k :
                /\ cl[j].x = cl[k].x /\ cl[j].z = cl[k].z
                /\ \A h \in 1..(j - 1) :
                      ~(cl[h].x = cl[k].x /\ cl[h].z = cl[k].z)
                /\ QueryBoth(m, cl[k].x, cl[k].z) = cl[j].d

\* a capture that comes back to its first position: (3,0), (3,4), (3,0);
\* the map is 8 long, its points are at 0, 1/2 and 1, and the query at (3,0)
\* returns 0
C22_Witness ==
    LET m == processTrackCapture(captureSession, 0).trackMap
    IN  /\ Len(m.centerline) = 3
        /\ m.lengthMeters = 8
        /\ m.centerline[3].x = m.centerline[1].x
        /\ m.centerline[3].z = m.centerline[1].z
        /\ m.centerline[3].d = Frac(8, 8)
        /\ QueryBoth(m, m.centerline[3].x, m.centerline[3].z) = Frac(0, 8)

\* ---- claims checked under SpecCipher

\* the bytes 0x47375330 is written as, low byte first
MagicBytes == <<48, 83, 55, 71>>
BeginsWithMagic(buffer) ==
    Len(buffer) >= 4 /\ SubSeq(buffer, 1, 4) = MagicBytes
\* the datagram was built from a plaintext by encrypt_test_vector
IsTestVector(input) == input.plain # << >>

\* C23: decrypt returns null for every input shorter than 68 bytes and
\* reads nothing outside the buffer (no RangeError), and an input of 68
\* bytes or more is never refused for its length: a test vector of a
\* plaintext that begins with the magic number is returned at every length
\* from 68 up.
C23_ShortInputsFail ==
    last.op = "decrypt" =>
        /\ last.result.returned # "RangeError"
        /\ Len(last.args.data) < 68 => last.result = NoBuffer
        /\ (Len(last.args.data) >= 68 /\ IsTestVector(last.args)
                /\ BeginsWithMagic(last.args.plain))
               => last.result.returned = "buffer"
C23_Witness ==
    /\ last.op = "decrypt"
    /\ Len(last.args.data) = 67
    /\ BeginsWithMagic(last.args.data)
    /\ last.result = NoBuffer

\* C24: decrypt returns a buffer only if the first four bytes of the
\* transformed output, read low byte first, are 0x47375330; a datagram whose
\* plaintext begins otherwise gets null and no buffer; a returned buffer is
\* exactly as long as the input.
C24_MagicGatesOutput ==
    last.op = "decrypt" =>
        /\ last.result.returned = "buffer" =>
               /\ BeginsWithMagic(last.result.bytes)
               /\ Len(last.result.bytes) = Len(last.args.data)
        /\ last.result.returned # "buffer" => last.result = NoBuffer
        /\ (Len(last.args.data) >= 68 /\ IsTestVector(last.args)) =>
               (last.result.returned = "buffer"
                    <=> BeginsWithMagic(last.args.plain))
C24_Witness ==
    /\ last.op = "decrypt"
    /\ Len(last.args.data) = 129
    /\ last.result.returned = "buffer"
    /\ BeginsWithMagic(last.result.bytes)
    /\ Len(last.result.bytes) = 129

\* C25: decrypt gives back the plaintext P of every test vector whose P
\* begins with the magic number (the vector being P XORed with the
\* keystream of the nonce iv1 XOR 0xDEADBEAF followed by iv1, iv1 the
\* vector's bytes 0x40..0x43), and salsa20Crypt applied twice with one key
\* and nonce gives back its input at every length, multiples of 64 or not.
C25_RoundTrip ==
    /\ (last.op = "decrypt" /\ IsTestVector(last.args)
            /\ BeginsWithMagic(last.args.plain))
           => last.result = Returned(last.args.plain)
    /\ last.op = "crypt" =>
           salsa20Crypt(last.result, SubSeq(SALSA20_KEY, 1, 32),
                        last.args.nonce) = last.args.data
C25_Witness ==
    /\ last.op = "decrypt"
    /\ IsTestVector(last.args)
    /\ BeginsWithMagic(last.args.plain)
    /\ Len(last.args.plain) = 129
    /\ last.args.data # last.args.plain
    /\ last.result = Returned(last.args.plain)

\* ---- claims checked under SpecParse

\* C26: parsePacket gives null exactly for the buffers of fewer than 296
\* bytes; a buffer of 296..315 bytes is reported as variant A, one of
\* 316..343 as B, one of 344 or more as '~', whatever its bytes; every
\* sample carries one of these three variants and the buffer's length.
C26_VariantByLength ==
    last.op = "parse" =>
        LET n == Len(last.args.data)
        IN  /\ last.result.returned = "null" <=> n < 296
            /\ n >= 296 =>
                   /\ last.result.returned = "sample"
                   /\ last.result.packetByteLength = n
                   /\ last.result.packetVariant \in {"A", "B", "~"}
                   /\ n \in 296..315 <=> last.result.packetVariant = "A"
                   /\ n \in 316..343 <=> last.result.packetVariant = "B"
                   /\ n >= 344 <=> last.result.packetVariant = "~"
C26_Witness ==
    /\ last.op = "parse"
    /\ Len(last.args.data) = 343
    /\ last.result.returned = "sample"
    /\ last.result.packetVariant = "B"
    /\ last.result.packetByteLength = 343

\* the four temperatures are numbers from -50 to 200
TemperaturesInRange(temps) ==
    \A i \in 1..4 :
        temps[i] \in {Float32.minus50, Float32.zero, Float32.eighty,
                     Float32.plus200}

\* C27: for every buffer of 296 bytes or more parsePacket returns a sample
\* and raises nothing: no read reaches outside the buffer, the lap distance
\* (bytes 300..303) is zero when the buffer ends before byte 304, and the
\* fields whose bytes are there are decoded all the same; the temperatures
\* are the four floats or absent.
C27_GuardedReads ==
    (last.op = "parse" /\ Len(last.args.data) >= 296) =>
        LET n == Len(last.args.data)
            f == last.args.fields
            sample == last.result
        IN  /\ sample.returned = "sample"
            /\ sample.lapDistance =
                   IF n >= 304 THEN f.lapDistance ELSE Float32.zero
            /\ sample.position.x = f.x
            /\ sample.carId = f.carId
            /\ sample.lapCountRaw = f.lapCountRaw
            /\ sample.lastLapTime =
                   IF f.lastLapTime = -1 THEN 0 ELSE f.lastLapTime
            /\ sample.sessionType =
                   IF f.flags % 2 = 1 THEN "race" ELSE "time_trial"
            /\ sample.tireTemperatures =
                   IF TemperaturesInRange(f.temps) THEN f.temps ELSE << >>
C27_Witness ==
    /\ last.op = "parse"
    /\ Len(last.args.data) = 303
    /\ last.args.fields.lapDistance # Float32.zero
    /\ last.result.returned = "sample"
    /\ last.result.lapDistance = Float32.zero
    /\ last.result.carId = 1234
    /\ last.result.tireTemperatures = << >>

\* C28: whatever byte is at offset 0x90, the decoded gear is 0 when the
\* byte's low nibble is 15 and the low nibble otherwise: a number of 0..14
\* that does not depend on the high nibble.
C28_GearIsLowNibble ==
    (last.op = "parse" /\ last.result.returned = "sample") =>
        LET nibble == last.args.fields.gearsByte % 16
        IN  /\ last.result.gear = IF nibble = 15 THEN 0 ELSE nibble
            /\ last.result.gear \in 0..14
C28_Witness ==
    /\ last.op = "parse"
    /\ last.args.fields.gearsByte = 31
    /\ last.result.returned = "sample"
    /\ last.result.gear = 0

Started(l) == l.isRunning /\ l.heartbeatInterval # Null

\* C30: while a listener is running a keep-alive datagram is sent once by
\* the start that set it running and once by every firing of its interval,
\* and the interval stays set, whatever datagrams arrive and whatever the
\* 'error' handler has logged.
C30_HeartbeatWhileRunning ==
    [][/\ (last'.op = "start" /\ Started(gt7')) =>
              net'.beats = net.beats + 1
       /\ (last'.op = "tick" /\ Started(gt7)) =>
              net'.beats = net.beats + 1
       /\ Started(gt7') => gt7'.heartbeatInterval \in net'.timers
       /\ last'.op \in {"arrive", "message", "error"} =>
              /\ net'.beats = net.beats
              /\ net'.timers = net.timers]_vars

\* ---- claims checked under SpecMap (track maps and the lap length)

\* the step is a call of calculateSectorTimes that returns a result and is
\* given a track map of positive length
CallWithMap ==
    /\ last'.op = "calc"
    /\ last'.args.carId /= 0
    /\ last'.args.trackMap.present
    /\ last'.args.trackMap.lengthMeters > 0

\* C31: a call given a track map of positive length reports the map's
\* length as lapLengthMeters and leaves it in the state, and when the lap
\* counter differs from the one last seen the learning branch does not run,
\* so the lapDistance of that sample does not become the lap length.
C31_MapLengthReported ==
    [][CallWithMap =>
          /\ last'.result.lapLengthMeters = last'.args.trackMap.lengthMeters
          /\ states'[last'.args.carId].lapLengthMeters =
                 last'.args.trackMap.lengthMeters
          /\ ~last'.branch.learn]_vars

\* a rollover with a changed, positive lastLapTime and a plausible
\* lapDistance, in a call given a map of another length
C31_Witness ==
    /\ last.op = "calc" /\ last.branch.rolled /\ ~last.branch.fresh
    /\ last.args.trackMap = MapB
    /\ last.args.lapDistance = 1700
    /\ last.args.lastLapTimeMs = 65000
    /\ states[Car].lastLastLapTimeMs = 65000
    /\ last.result.lapLengthMeters = 1000

\* ---- claims checked under SpecBoundaries (the sector boundaries)

\* the sector boundaries of a vehicle in the map m of states: those of its
\* state, and the defaults when it has none (its next call creates it)
BoundariesOf(m, c) ==
    IF c \in DOMAIN m THEN <<m[c].s1End, m[c].s2End>>
    ELSE <<DefaultS1End, DefaultS2End>>

\* the step is a call of calculateSectorTimes that returns a result
CallReturns ==
    last'.op = "calc" /\ last'.args.carId /= 0

\* C32: a call given a track map that carries at least two sector fractions
\* leaves the vehicle's boundaries at the map's first two fractions; every
\* other call - without a map, with a map that carries fewer than two
\* fractions, with or without a rollover or a jitter reset - leaves them as
\* they were, which is 0.33 and 0.66 for a vehicle that has no state.
C32_BoundariesFromMap ==
    [][CallReturns =>
          LET c == last'.args.carId
              fractions == last'.args.trackMap.sectorFractions
          IN  IF last'.args.trackMap.present /\ Len(fractions) >= 2
              THEN BoundariesOf(states', c) = <<fractions[1], fractions[2]>>
              ELSE BoundariesOf(states', c) = BoundariesOf(states, c)]_vars

\* ---- claims checked under Spec (the ends of the plausible band)

\* C33: with no track map, a call whose lap counter differs from the one
\* last seen, whose lastLapTime is positive and differs from the recorded
\* one and whose lapDistance is exactly 500 or exactly 50000 leaves and
\* reports lapLengthMeters = lapDistance.
C33_BandEndsAccepted ==
    [][(/\ CallOnKnown(Car)
        /\ ~last'.args.trackMap.present
        /\ last'.args.lapCountRaw /= states[Car].lastLapCountRaw
        /\ last'.args.lastLapTimeMs > 0
        /\ last'.args.lastLapTimeMs /= states[Car].lastLastLapTimeMs
        /\ last'.args.lapDistance \in {500, 50000})
       => (/\ states'[Car].lapLengthMeters = last'.args.lapDistance
           /\ last'.result.lapLengthMeters = last'.args.lapDistance)]_vars

\* ---- claims checked under SpecIngest (disconnect and the lap buffer)

\* C34: when the disconnect handler has run, no vehicle has a Sector/Lap
\* state; and the first packet handled after a connect that follows a
\* disconnect is handled as the vehicle's first sample: its state is
\* created by that call, it is reported in Sector1 without a lap length, and
\* the lap starts at that sample's time.
C34_DisconnectClearsTracker ==
    [][/\ last'.op = "disconnect" => DOMAIN states' = {}
       /\ (/\ last.op = "connect" /\ last.afterReset
           /\ last'.op = "packet")
          => (/\ last'.branch.fresh
              /\ last'.result.currentSector = 1
              /\ last'.result.lapLengthMeters = Undef
              /\ states'[last'.args.carId].lapStartTs = last'.args.now)]_vars

\* ---- claims checked under SpecParse (the fields of the longer variants)

C36_OneSocketOneTimer ==
    [][/\ Cardinality(net'.open) <= 1
       /\ Cardinality(net'.timers) <= 1
       /\ net'.started /= net.started
          => /\ net'.open \subseteq {net'.started}
             /\ net'.timers \subseteq {net'.started}]_vars

\* the connect handler has replaced a listener that was running with its
\* socket open and its interval set
C36_Witness ==
    /\ last.op = "connect"
    /\ net.started = 2
    /\ 1 \in net.stopped
    /\ net.beats = 2
    /\ net.open = {2}
    /\ net.timers = {2}

\* ---- claims checked under SpecIngest (lap writes and the lap buffer)

\* C37: a lap is handed to saveLap only by the callback, on a packet whose
\* currentLap is greater than the orchestrator's lap index while that index
\* is positive; no other step writes a lap - not a packet handled while the
\* index is 0, not a packet whose currentLap is lower than the index, not
\* disconnect.
C37_LapWrittenOnlyAtCompletion ==
    [][store'.laps /= store.laps =>
          /\ last'.op = "packet"
          /\ currentLap > 0
          /\ last'.args.currentLap > currentLap]_vars

\* ---- claims checked under Spec (the order of the sectors)

\* C38: a call in which neither the rollover block nor the jitter block
\* runs leaves the vehicle in the sector it was in or in the next one, and
\* reports that sector; from Sector1, with a known lap length and a progress
\* at or beyond both boundaries, it leaves it in Sector2.  A call in which
\* one of the two blocks runs, and the first call for a vehicle, leave it in
\* Sector1 or Sector2.
C38_SectorAdvancesByOne ==
    [][\A c \in DOMAIN states' :
          (last'.op = "calc" /\ last'.args.carId = c) =>
              LET after == states'[c].currentSector
                  reset == \/ c \notin DOMAIN states
                           \/ last'.branch.rolled
                           \/ last'.branch.jitter
              IN  /\ last'.result.currentSector = after
                  /\ reset => after \in {1, 2}
                  /\ ~reset =>
                        /\ after \in {states[c].currentSector,
                                      states[c].currentSector + 1}
                        /\ after <= 3
                        /\ (/\ states[c].currentSector = 1
                            /\ states'[c].lapLengthMeters > 0
                            /\ FracGE(last'.result.lapFraction,
                                      states[c].s1End)
                            /\ FracGE(last'.result.lapFraction,
                                      states[c].s2End))
                           => after = 2]_vars

\* a sample at the end of the lap, beyond both boundaries, has taken a
\* vehicle from Sector1 to Sector2 without a reset
C38_Witness ==
    /\ last.op = "calc"
    /\ ~last.branch.fresh /\ ~last.branch.rolled /\ ~last.branch.jitter
    /\ last.branch.fired
    /\ last.args.lapDistance = 1700
    /\ states[Car].lapLengthMeters = 1700
    /\ states[Car].currentSector = 2
    /\ last.result.currentSector = 2

\* ---- claims checked under SpecMap (the lap length behind the sectors)

\* C39: a vehicle in Sector2 or Sector3 has a lap length that is defined and
\* positive; a call in which a sector transition fires leaves and reports
\* such a lap length; a lap length that is known stays known for as long as
\* the vehicle has a state; and a state is removed by
\* resetSectorTimesForCar alone.
C39_SectorsNeedLapLength ==
    [][/\ \A c \in DOMAIN states' :
             /\ states'[c].currentSector \in {2, 3}
                => states'[c].lapLengthMeters > 0
             /\ (last'.op = "calc" /\ last'.args.carId = c
                 /\ last'.branch.fired)
                => /\ states'[c].lapLengthMeters > 0
                   /\ last'.result.lapLengthMeters > 0
             /\ (c \in DOMAIN states /\ states[c].lapLengthMeters > 0)
                => states'[c].lapLengthMeters > 0
       /\ \A c \in DOMAIN states \ DOMAIN states' :
             last'.op = "reset" /\ last'.args.carId = c]_vars

\* a vehicle in Sector3 with the lap length of a map, after a call that
\* was given neither a map nor a lap distance
C39_Witness ==
    /\ last.op = "calc"
    /\ ~last.args.trackMap.present
    /\ last.args.lapDistance = 0
    /\ Car \in DOMAIN states
    /\ states[Car].currentSector = 3
    /\ states[Car].lapLengthMeters = 1700

\* C40: the lap buffer and the lap index change together.  A packet whose
\* currentLap is the lap index is appended to the buffer; a packet whose
\* currentLap is another becomes the only sample of the buffer and its
\* currentLap the lap index; so that after every packet the buffer holds
\* samples decoded with the present lap index only, those of one lap.
\* Disconnect leaves the buffer empty and the lap index 0, and no other step
\* changes either.
C40_BufferHoldsOneLap ==
    [][/\ last'.op = "packet" =>
              /\ currentLap' = last'.args.currentLap
              /\ lapTelemetry' =
                     IF last'.args.currentLap = currentLap
                     THEN Append(lapTelemetry,
                                 TelemetryPoint(Len(lapTelemetry),
                                                last'.args.lapDistance))
                     ELSE <<TelemetryPoint(0, last'.args.lapDistance)>>
       /\ last'.op = "disconnect" =>
              currentLap' = 0 /\ lapTelemetry' = << >>
       /\ last'.op \notin {"packet", "disconnect"} =>
              currentLap' = currentLap /\ lapTelemetry' = lapTelemetry]_vars

\* the second sample of lap 2 has been buffered after lap 1 was written
C40_Witness ==
    /\ last.op = "packet"
    /\ last.args.currentLap = 2
    /\ currentLap = 2
    /\ Len(lapTelemetry) = 2
    /\ Len(store.laps) = 1

====
